---- MODULE Spec2Model ----
(***************************************************************************)
(* A model of the storage-contract core of godx: the Merkle range-proof    *)
(* engine (package merkle), the host side of the upload negotiation        *)
(* (package hostnegotiation), the client's Write, ContractCreate and Read  *)
(* (package storageclient) and the host's contract locks.                  *)
(*                                                                         *)
(* Hashes are modelled as free terms: a leaf hash is a one-element tuple   *)
(* <<v>>, an inner node is the pair <<left, right>> of its children, and   *)
(* the nil slice is <<>>.  Two hashes are then equal exactly when they     *)
(* were built the same way (a collision-free hash).                        *)
(***************************************************************************)
EXTENDS Integers, Sequences, FiniteSets, TLC

VARIABLES
    mk,         \* the Merkle proof engine under test: inputs, proof, verdict
    db,         \* the host's durable StorageResponsibility of the contract
    sectors,    \* the host's sector store: sector root -> copies held
    hs,         \* the running ContractUploadHandler calls, one per session
    config,     \* the host's prices (np.GetHostConfig())
    wr,         \* the client's call of StorageClient.Write
    cc,         \* the client's call of StorageClient.ContractCreate
    rd,         \* the client's call of StorageClient.Read
    lk          \* the host's lock and its registry of contract locks

(***************************************************************************)
(* Bounds of the model.                                                     *)
(***************************************************************************)
\* uint64 is scaled to UintBits bits (TLC's integers have 32)
UintBits == 8
\* the longest leaf sequence drawn
MaxLeaves == 4
\* the longest list of arbitrary (possibly invalid) limits drawn
MaxRawLimits == 2
\* the sessions that may run ContractUploadHandler at the same time
NumHandlers == 2
\* the most upload actions in one request
MaxActions == 2
\* the most sectors the contract holds before the first upload
MaxInitSectors == 1
\* the most sectors the contract holds before a Write
MaxWriteSectors == 3

RECURSIVE Pow2(_)
Pow2(n) == IF n <= 0 THEN 1 ELSE 2 * Pow2(n - 1)

\* math.MaxUint64, at the model's width
MaxUint64 == Pow2(UintBits) - 1

\* uint64 arithmetic wraps
U64(x) == x % Pow2(UintBits)

\* a value converted to int, which has the width of uint64 and a sign
ToInt(x) ==
    IF U64(x) >= Pow2(UintBits - 1) THEN U64(x) - Pow2(UintBits) ELSE U64(x)

\* F applied to the value of e, with e computed once
Bind(e, F(_)) == CHOOSE r \in {F(x) : x \in {e}} : TRUE

Min(a, b) == IF a < b THEN a ELSE b

(***************************************************************************)
(* math/bits                                                                *)
(***************************************************************************)
RECURSIVE TrailingZeros64(_)
TrailingZeros64(x) ==
    IF x = 0 THEN UintBits
    ELSE IF x % 2 = 1 THEN 0 ELSE 1 + TrailingZeros64(x \div 2)

RECURSIVE Len64(_)
Len64(x) == IF x = 0 THEN 0 ELSE 1 + Len64(x \div 2)

(***************************************************************************)
(* adjacentSubtreeSize: the size of the largest aligned subtree that       *)
(* starts at left and does not pass right.                                  *)
(***************************************************************************)
adjacentSubtreeSizeWrongMin(left, right) ==
    LET leftInt == TrailingZeros64(left)
        max     == Len64(U64(right - left)) - 1
    IN  IF leftInt > max THEN Pow2(leftInt) ELSE Pow2(max)

adjacentSubtreeSize(left, right) ==
    LET leftInt == TrailingZeros64(left)
        max     == Len64(U64(right - left)) - 1
    IN  IF leftInt > max THEN ToInt(Pow2(max)) ELSE ToInt(Pow2(leftInt))

(***************************************************************************)
(* checkLimitList: every limit is non-empty, and the limits are sorted and *)
(* do not overlap.  A limit is a record [Left, Right].                      *)
(***************************************************************************)
Limit(l, r) == [Left |-> l, Right |-> r]

\* a check that looks at each limit alone and not at its neighbour
checkLimitListNoOrder(limits) ==
    \A i \in 1..Len(limits) : ~(limits[i].Left < 0 \/ limits[i].Left >= limits[i].Right)

checkLimitList(limits) ==
    \A i \in 1..Len(limits) :
        /\ ~(limits[i].Left < 0 \/ limits[i].Left >= limits[i].Right)
        /\ ~(i > 1 /\ limits[i - 1].Right > limits[i].Left)

(***************************************************************************)
(* The Merkle tree (Tree, NewTree, PushSubTree, Root): a stack of complete *)
(* subtrees, the smallest last.  Pushing a subtree joins equal heights.     *)
(***************************************************************************)
NilHash == <<>>

nodeTotal(a, b) == <<a, b>>

NewTree == <<>>

RECURSIVE joinAllSubTrees(_)
joinAllSubTrees(stack) ==
    LET n == Len(stack) IN
    IF n >= 2 /\ stack[n].height = stack[n - 1].height
    THEN joinAllSubTrees(
            Append(SubSeq(stack, 1, n - 2),
                   [height |-> stack[n].height + 1,
                    sum    |-> nodeTotal(stack[n - 1].sum, stack[n].sum)]))
    ELSE stack

\* [err, tree]: err is TRUE when the subtree is higher than the smallest one held
PushSubTree(tree, height, sum) ==
    IF Len(tree) > 0 /\ height > tree[Len(tree)].height
    THEN [err |-> TRUE, tree |-> tree]
    ELSE [err |-> FALSE,
          tree |-> joinAllSubTrees(Append(tree, [height |-> height, sum |-> sum]))]

RECURSIVE RootFrom(_, _)
RootFrom(tree, current) ==
    IF Len(tree) = 0 THEN current
    ELSE RootFrom(SubSeq(tree, 1, Len(tree) - 1),
                  nodeTotal(tree[Len(tree)].sum, current))

Root(tree) ==
    IF Len(tree) = 0 THEN NilHash
    ELSE RootFrom(SubSeq(tree, 1, Len(tree) - 1), tree[Len(tree)].sum)

\* the tree that holds the given leaf hashes, pushed one at a time at height 0
RECURSIVE PushLeafRoots(_, _)
PushLeafRoots(tree, roots) ==
    IF Len(roots) = 0 THEN tree
    ELSE PushLeafRoots(PushSubTree(tree, 0, roots[1]).tree, Tail(roots))

\* the Merkle root of a whole sequence of leaf hashes
CachedTreeRoot(roots) == Root(PushLeafRoots(NewTree, roots))

(***************************************************************************)
(* CachedSubtreeRoot: a leaf source that pops precomputed leaf roots.       *)
(* Its state is leafRoots, the roots not yet consumed.                      *)
(***************************************************************************)
\* a source that gives no short root: it fails when leaves are missing
CachedGetSubtreeRootAllOrNothing(leafRoots, leafIndex) ==
    IF Len(leafRoots) = 0 \/ Len(leafRoots) < leafIndex
    THEN [root |-> NilHash, err |-> "EOF", leafRoots |-> leafRoots]
    ELSE LET k == IF leafIndex < 0 THEN 0 ELSE leafIndex
         IN  [root      |-> CachedTreeRoot(SubSeq(leafRoots, 1, k)),
              err       |-> "nil",
              leafRoots |-> SubSeq(leafRoots, k + 1, Len(leafRoots))]

\* [root, err, leafRoots]
CachedGetSubtreeRoot(leafRoots, leafIndex) ==
    IF Len(leafRoots) = 0
    THEN [root |-> NilHash, err |-> "EOF", leafRoots |-> leafRoots]
    ELSE LET k == IF leafIndex < 0 THEN 0 ELSE Min(leafIndex, Len(leafRoots))
         IN  [root      |-> CachedTreeRoot(SubSeq(leafRoots, 1, k)),
              err       |-> "nil",
              leafRoots |-> SubSeq(leafRoots, k + 1, Len(leafRoots))]

\* [err, leafRoots]
CachedSkip(leafRoots, n) ==
    IF n > Len(leafRoots)
    THEN [err |-> "ErrUnexpectedEOF", leafRoots |-> leafRoots]
    ELSE IF n < 0
    THEN [err |-> "panic", leafRoots |-> leafRoots]
    ELSE [err |-> "nil", leafRoots |-> SubSeq(leafRoots, n + 1, Len(leafRoots))]

(***************************************************************************)
(* SubtreeRootReader: a leaf source that reads leaves of leafSize bytes    *)
(* from a reader r.  Its state is r, the bytes not yet read.  The hash of  *)
(* a leaf's data is a term of its own.                                      *)
(***************************************************************************)
leafTotal(data) == <<data>>

PushLeaf(tree, data) == PushSubTree(tree, 0, leafTotal(data)).tree

\* the loop of GetSubtreeRoot: [tree, r] after reading from leaf i on
RECURSIVE ReaderReadLeaves(_, _, _, _, _)
ReaderReadLeaves(tree, r, leafSize, i, leafIndex) ==
    IF ~(i < leafIndex) THEN [tree |-> tree, r |-> r]
    ELSE LET n     == Min(leafSize, Len(r))
             tree1 == IF n > 0 THEN PushLeaf(tree, SubSeq(r, 1, n)) ELSE tree
             r1    == SubSeq(r, n + 1, Len(r))
         IN  IF n < leafSize
             THEN [tree |-> tree1, r |-> r1]
             ELSE ReaderReadLeaves(tree1, r1, leafSize, i + 1, leafIndex)

\* [root, err, r]
ReaderGetSubtreeRoot(r, leafSize, leafIndex) ==
    LET read == ReaderReadLeaves(NewTree, r, leafSize, 0, leafIndex)
        root == Root(read.tree)
    IN  IF root = NilHash
        THEN [root |-> NilHash, err |-> "EOF", r |-> read.r]
        ELSE [root |-> root, err |-> "nil", r |-> read.r]

\* [err, r]: io.CopyN of skipSize bytes to ioutil.Discard
ReaderSkip(r, leafSize, n) ==
    LET skipSize == leafSize * n
        skipped  == IF skipSize < 0 THEN 0 ELSE Min(skipSize, Len(r))
        r1       == SubSeq(r, skipped + 1, Len(r))
    IN  IF skipped < skipSize
        THEN [err |-> "ErrUnexpectedEOF", r |-> r1]
        ELSE [err |-> "nil", r |-> r1]

(***************************************************************************)
(* getLimitStorageProof: the subtree roots of everything outside limits.    *)
(* The walk state st is [leafIndex, leafRoots, proof, err].                 *)
(***************************************************************************)
RECURSIVE GetConsumeUntil(_, _)
GetConsumeUntil(st, end) ==
    IF st.leafIndex = end THEN st
    ELSE LET subtreeSize == adjacentSubtreeSize(st.leafIndex, end)
             got         == CachedGetSubtreeRoot(st.leafRoots, subtreeSize)
         IN  IF got.err # "nil"
             THEN [st EXCEPT !.err = got.err]
             ELSE GetConsumeUntil(
                    [leafIndex |-> U64(st.leafIndex + subtreeSize),
                     leafRoots |-> got.leafRoots,
                     proof     |-> Append(st.proof, got.root),
                     err       |-> "nil"], end)

RECURSIVE GetWalkLimits(_, _)
GetWalkLimits(st, limits) ==
    IF Len(limits) = 0 THEN st
    ELSE LET r  == limits[1]
             s1 == GetConsumeUntil(st, r.Left)
         IN  IF s1.err # "nil" THEN s1
             ELSE LET sk == CachedSkip(s1.leafRoots, ToInt(r.Right - r.Left))
                  IN  IF sk.err # "nil"
                      THEN [s1 EXCEPT !.err = sk.err]
                      ELSE GetWalkLimits(
                             [s1 EXCEPT !.leafRoots = sk.leafRoots,
                                        !.leafIndex = U64(s1.leafIndex + (r.Right - r.Left))],
                             Tail(limits))

\* [proof, err, leafRoots]: leafRoots is what the call left in the source
getLimitStorageProof(limits, leafRoots) ==
    IF Len(limits) = 0
    THEN [proof |-> <<>>, err |-> "nil", leafRoots |-> leafRoots]
    ELSE IF ~checkLimitList(limits)
    THEN [proof |-> <<>>, err |-> "invalid", leafRoots |-> leafRoots]
    ELSE LET s0 == [leafIndex |-> 0, leafRoots |-> leafRoots,
                    proof |-> <<>>, err |-> "nil"]
             s1 == GetWalkLimits(s0, limits)
         IN  IF s1.err # "nil"
             THEN [proof |-> <<>>, err |-> s1.err, leafRoots |-> s1.leafRoots]
             ELSE LET s2 == GetConsumeUntil(s1, MaxUint64)
                  IN  [proof     |-> s2.proof,
                       err       |-> IF s2.err = "EOF" THEN "nil" ELSE s2.err,
                       leafRoots |-> s2.leafRoots]

\* GetLimitStorageProof: the proof for the one limit [left, right)
GetLimitStorageProof(left, right, leafRoots) ==
    IF left < 0 \/ left > right \/ left = right
    THEN [proof |-> <<>>, err |-> "invalid", leafRoots |-> leafRoots]
    ELSE getLimitStorageProof(<<Limit(U64(left), U64(right))>>, leafRoots)

(***************************************************************************)
(* LeafRootCached and checkLimitStorageProof: rebuild the root from the    *)
(* proof and the claimed leaf hashes.                                       *)
(* The walk state st is [leafIndex, proof, leaves, tree, err].              *)
(***************************************************************************)
RECURSIVE CheckConsumeUntil(_, _)
CheckConsumeUntil(st, end) ==
    IF ~(st.leafIndex # end /\ Len(st.proof) > 0) THEN st
    ELSE LET subtreeSize == adjacentSubtreeSize(st.leafIndex, end)
             i           == TrailingZeros64(U64(subtreeSize))
             pushed      == PushSubTree(st.tree, i, st.proof[1])
         IN  IF pushed.err
             THEN [st EXCEPT !.err = "push"]
             ELSE CheckConsumeUntil(
                    [st EXCEPT !.tree = pushed.tree,
                               !.proof = Tail(st.proof),
                               !.leafIndex = U64(st.leafIndex + subtreeSize)], end)

\* the inner loop: for i := r.Left; i < r.Right; i++
RECURSIVE CheckPushLeaves(_, _)
CheckPushLeaves(st, count) ==
    IF count = 0 THEN st
    ELSE IF Len(st.leaves) = 0 THEN [st EXCEPT !.err = "EOF"]
    ELSE LET pushed == PushSubTree(st.tree, 0, st.leaves[1])
         IN  IF pushed.err THEN [st EXCEPT !.err = "panic"]
             ELSE CheckPushLeaves(
                    [st EXCEPT !.tree = pushed.tree, !.leaves = Tail(st.leaves)],
                    count - 1)

RECURSIVE CheckWalkLimits(_, _)
CheckWalkLimits(st, limits) ==
    IF Len(limits) = 0 THEN st
    ELSE LET r  == limits[1]
             s1 == CheckConsumeUntil(st, r.Left)
         IN  IF s1.err # "nil" THEN s1
             ELSE LET s2 == CheckPushLeaves(s1, r.Right - r.Left)
                  IN  IF s2.err # "nil" THEN s2
                      ELSE CheckWalkLimits(
                             [s2 EXCEPT !.leafIndex = U64(s2.leafIndex + (r.Right - r.Left))],
                             Tail(limits))

\* as checkLimitStorageProof, with the rebuilt root not compared
checkLimitStorageProofNoCompare(leafHashes, limits, storageProofList, root) ==
    IF Len(limits) = 0 THEN [ok |-> TRUE, err |-> "nil"]
    ELSE IF ~checkLimitList(limits) THEN [ok |-> FALSE, err |-> "invalid"]
    ELSE LET s0 == [leafIndex |-> 0, proof |-> storageProofList,
                    leaves |-> leafHashes, tree |-> NewTree, err |-> "nil"]
             s1 == CheckWalkLimits(s0, limits)
         IN  IF s1.err # "nil" THEN [ok |-> FALSE, err |-> s1.err]
             ELSE LET s2 == CheckConsumeUntil(s1, MaxUint64)
                  IN  IF s2.err # "nil" THEN [ok |-> FALSE, err |-> s2.err]
                      ELSE [ok |-> TRUE, err |-> "nil"]

\* [ok, err]
checkLimitStorageProof(leafHashes, limits, storageProofList, root) ==
    IF Len(limits) = 0 THEN [ok |-> TRUE, err |-> "nil"]
    ELSE IF ~checkLimitList(limits) THEN [ok |-> FALSE, err |-> "invalid"]
    ELSE LET s0 == [leafIndex |-> 0, proof |-> storageProofList,
                    leaves |-> leafHashes, tree |-> NewTree, err |-> "nil"]
             s1 == CheckWalkLimits(s0, limits)
         IN  IF s1.err # "nil" THEN [ok |-> FALSE, err |-> s1.err]
             ELSE LET s2 == CheckConsumeUntil(s1, MaxUint64)
                  IN  IF s2.err # "nil" THEN [ok |-> FALSE, err |-> s2.err]
                      ELSE [ok |-> Root(s2.tree) = root, err |-> "nil"]

\* the check for one limit with the comparison of the roots left out
CheckLimitStorageProofAnyRoot(leafHashes, left, right, storageProofList, root) ==
    IF left < 0 \/ left > right \/ left = right
    THEN [ok |-> FALSE, err |-> "invalid"]
    ELSE checkLimitStorageProofNoCompare(leafHashes,
                                         <<Limit(U64(left), U64(right))>>,
                                         storageProofList, root)

\* CheckLimitStorageProof: the check for the one limit [left, right)
CheckLimitStorageProof(leafHashes, left, right, storageProofList, root) ==
    IF left < 0 \/ left > right \/ left = right
    THEN [ok |-> FALSE, err |-> "invalid"]
    ELSE checkLimitStorageProof(leafHashes, <<Limit(U64(left), U64(right))>>,
                                storageProofList, root)

(***************************************************************************)
(* Diff proofs (merkle.Sha256DiffProof, storage.VerifyDiffProof): the walk *)
(* of getLimitStorageProof and checkLimitStorageProof with a total leaf    *)
(* count, to which the final drain runs.                                    *)
(***************************************************************************)
\* [proof, err]
Sha256DiffProof(roots, limits, leavesCount) ==
    IF ~checkLimitList(limits) THEN [proof |-> <<>>, err |-> "invalid"]
    ELSE LET s0 == [leafIndex |-> 0, leafRoots |-> roots,
                    proof |-> <<>>, err |-> "nil"]
             s1 == GetWalkLimits(s0, limits)
         IN  IF s1.err # "nil" THEN [proof |-> <<>>, err |-> s1.err]
             ELSE LET s2 == GetConsumeUntil(s1, leavesCount)
                  IN  IF s2.err # "nil" THEN [proof |-> <<>>, err |-> s2.err]
                      ELSE [proof |-> s2.proof, err |-> "nil"]

\* TRUE when the proof and the claimed leaves rebuild root
VerifyDiffProof(limits, numLeaves, proofHashes, leafHashes, root) ==
    IF ~checkLimitList(limits) THEN FALSE
    ELSE LET s0 == [leafIndex |-> 0, proof |-> proofHashes,
                    leaves |-> leafHashes, tree |-> NewTree, err |-> "nil"]
             s1 == CheckWalkLimits(s0, limits)
         IN  IF s1.err # "nil" THEN FALSE
             ELSE LET s2 == CheckConsumeUntil(s1, numLeaves)
                  IN  s2.err = "nil" /\ Root(s2.tree) = root

(***************************************************************************)
(* Package storage and hostnegotiation: constants and value types.          *)
(***************************************************************************)
SectorSize == 4194304
HashSize == 32

validProofPaybackHostAddressIndex == 1
hostSignIndex == 1

\* the Merkle root of one sector's data (merkle.Sha256MerkleTreeRoot)
Sha256MerkleTreeRoot(data) == <<data>>

\* the root of a sector-root sequence (merkle.Sha256CachedTreeRoot2)
Sha256CachedTreeRoot2(roots) == CachedTreeRoot(roots)

DxcoinCharge(value, address) == [Value |-> value, Address |-> address]

\* the zero value of uploadNegotiationData
NoSr == [SectorRoots |-> <<>>, StorageContractRevisions |-> <<>>,
         PotentialStorageRevenue |-> 0, RiskedStorageDeposit |-> 0,
         PotentialUploadRevenue |-> 0]

NoProof == [OldSubtreeHashes |-> <<>>, OldLeafHashes |-> <<>>,
            NewMerkleRoot |-> NilHash]

ZeroNd == [srSnapshot |-> NoSr, newRoots |-> <<>>, sectorsChanged |-> {},
           bandwidthRevenue |-> 0, sectorGained |-> <<>>,
           gainedSectorData |-> <<>>, storageRevenue |-> 0, newDeposit |-> 0,
           newMerkleRoot |-> NilHash, merkleProof |-> NoProof]

(***************************************************************************)
(* handleUploadAppendType and parseAndHandleUploadActions                   *)
(***************************************************************************)
\* as handleUploadAppendType, with the new root put in front
handleUploadAppendTypeInFront(action, nd, uploadBandwidthPrice) ==
    LET newRoot  == Sha256MerkleTreeRoot(action.Data)
        newRoots == <<newRoot>> \o nd.newRoots
    IN  [nd EXCEPT !.newRoots = newRoots,
                   !.sectorGained = Append(nd.sectorGained, newRoot),
                   !.gainedSectorData = Append(nd.gainedSectorData, action.Data),
                   !.sectorsChanged = nd.sectorsChanged \cup {Len(newRoots) - 1},
                   !.bandwidthRevenue = nd.bandwidthRevenue
                                          + uploadBandwidthPrice * SectorSize]

handleUploadAppendType(action, nd, uploadBandwidthPrice) ==
    LET newRoot  == Sha256MerkleTreeRoot(action.Data)
        newRoots == Append(nd.newRoots, newRoot)
    IN  [nd EXCEPT !.newRoots = newRoots,
                   !.sectorGained = Append(nd.sectorGained, newRoot),
                   !.gainedSectorData = Append(nd.gainedSectorData, action.Data),
                   !.sectorsChanged = nd.sectorsChanged \cup {Len(newRoots) - 1},
                   !.bandwidthRevenue = nd.bandwidthRevenue
                                          + uploadBandwidthPrice * SectorSize]

RECURSIVE HandleActions(_, _, _)
HandleActions(actions, nd, uploadBandwidthPrice) ==
    IF Len(actions) = 0 THEN [err |-> "nil", nd |-> nd]
    ELSE IF actions[1].Type = "Append"
    THEN HandleActions(Tail(actions),
                       handleUploadAppendType(actions[1], nd, uploadBandwidthPrice),
                       uploadBandwidthPrice)
    ELSE [err |-> "unknown upload action type", nd |-> nd]

\* [err, nd]
parseAndHandleUploadActions(uploadReq, nd, sr, uploadBandwidthPrice) ==
    HandleActions(uploadReq.Actions,
                  [nd EXCEPT !.newRoots = nd.newRoots \o sr.SectorRoots,
                             !.sectorsChanged = {}],
                  uploadBandwidthPrice)

(***************************************************************************)
(* The new revision: file size, Merkle root and payouts.                    *)
(***************************************************************************)
RECURSIVE updateRevisionFileSizeFrom(_, _)
updateRevisionFileSizeFrom(size, actions) ==
    IF Len(actions) = 0 THEN size
    ELSE updateRevisionFileSizeFrom(
            IF actions[1].Type = "Append" THEN size + SectorSize ELSE size,
            Tail(actions))

updateRevisionFileSize(newRev, uploadReq) ==
    [newRev EXCEPT !.NewFileSize =
        updateRevisionFileSizeFrom(newRev.NewFileSize, uploadReq.Actions)]

\* as calcAndUpdateRevisionMerkleRoot, with the root not kept in nd
calcAndUpdateRevisionMerkleRootNotKept(nd, newRev) ==
    LET root == Sha256CachedTreeRoot2(nd.newRoots)
    IN  [nd     |-> nd,
         newRev |-> [newRev EXCEPT !.NewFileMerkleRoot = root]]

\* [nd, newRev]
calcAndUpdateRevisionMerkleRoot(nd, newRev) ==
    LET root == Sha256CachedTreeRoot2(nd.newRoots)
    IN  [nd     |-> [nd EXCEPT !.newMerkleRoot = root],
         newRev |-> [newRev EXCEPT !.NewFileMerkleRoot = root]]

\* both loops index the request's values by the positions of
\* currentRev.NewValidProofOutputs: a shorter value list, or a shorter list of
\* missed outputs, is an index out of range
PaybackPanics(currentRev, uploadReq) ==
    LET n == Len(currentRev.NewValidProofOutputs)
    IN  \/ Len(uploadReq.NewValidProofValues) < n
        \/ Len(uploadReq.NewMissedProofValues) < n
        \/ Len(currentRev.NewMissedProofOutputs) < n

\* newRev starts as a copy of currentRev, and the proposed payouts are
\* appended to the lists it already holds
updateRevisionMissedAndValidPayback(nd, newRev, currentRev, uploadReq) ==
    [newRev EXCEPT
        !.NewValidProofOutputs = newRev.NewValidProofOutputs \o
            [i \in 1..Len(currentRev.NewValidProofOutputs) |->
                DxcoinCharge(uploadReq.NewValidProofValues[i],
                             currentRev.NewValidProofOutputs[i].Address)],
        !.NewMissedProofOutputs = newRev.NewMissedProofOutputs \o
            [i \in 1..Len(currentRev.NewValidProofOutputs) |->
                DxcoinCharge(uploadReq.NewMissedProofValues[i],
                             currentRev.NewMissedProofOutputs[i].Address)]]

(***************************************************************************)
(* calcHostRevenue and uploadRevisionValidation                             *)
(***************************************************************************)
\* [hostRevenue, nd]: the storage revenue and the deposit of the added
\* sectors are recorded in nd; the revenue is storage plus upload bandwidth
calcHostRevenue(nd, sr, hostConfig) ==
    LET added == IF Len(nd.newRoots) > Len(sr.SectorRoots)
                 THEN Len(nd.newRoots) - Len(sr.SectorRoots) ELSE 0
        nd1   == [nd EXCEPT !.storageRevenue = hostConfig.StoragePrice * added,
                            !.newDeposit = hostConfig.Deposit * added]
    IN  [hostRevenue |-> nd1.storageRevenue + nd1.bandwidthRevenue, nd |-> nd1]

\* "nil", or the reason the revision is refused.  sr holds the new roots.
uploadRevisionValidation(sr, newRev, hostRevenue) ==
    LET oldRev == sr.StorageContractRevisions[Len(sr.StorageContractRevisions)]
        host   == validProofPaybackHostAddressIndex + 1
    IN  IF newRev.NewRevisionNumber # oldRev.NewRevisionNumber + 1
        THEN "bad revision number"
        ELSE IF newRev.NewWindowStart # oldRev.NewWindowStart
                \/ newRev.NewWindowEnd # oldRev.NewWindowEnd
        THEN "bad window"
        ELSE IF newRev.NewValidProofOutputs[host].Value
                  < oldRev.NewValidProofOutputs[host].Value + hostRevenue
        THEN "low host valid payout"
        ELSE IF newRev.NewFileSize # Len(sr.SectorRoots) * SectorSize
                \/ newRev.NewFileMerkleRoot # Sha256CachedTreeRoot2(sr.SectorRoots)
        THEN "bad file size or merkle root"
        ELSE "nil"

(***************************************************************************)
(* constructAndVerifyNewRevision: [err, newRev, nd]                         *)
(***************************************************************************)
NoRev == [ParentID |-> "none", NewRevisionNumber |-> 0, NewFileSize |-> 0,
          NewFileMerkleRoot |-> NilHash, NewWindowStart |-> 0, NewWindowEnd |-> 0,
          NewValidProofOutputs |-> <<>>, NewMissedProofOutputs |-> <<>>,
          Signatures |-> <<>>]

\* as constructAndVerifyNewRevision, with the validation's verdict ignored
constructAndVerifyNewRevisionUnchecked(nd, sr, uploadReq, hostConfig) ==
    IF PaybackPanics(sr.StorageContractRevisions[Len(sr.StorageContractRevisions)],
                     uploadReq)
    THEN [err |-> "panic", newRev |-> NoRev, nd |-> nd] ELSE
    LET currentRev == sr.StorageContractRevisions[Len(sr.StorageContractRevisions)]
        rev0 == [currentRev EXCEPT !.NewRevisionNumber = uploadReq.NewRevisionNumber]
        rev1 == updateRevisionFileSize(rev0, uploadReq)
        m    == calcAndUpdateRevisionMerkleRoot(nd, rev1)
        rev3 == updateRevisionMissedAndValidPayback(m.nd, m.newRev, currentRev, uploadReq)
        rv   == calcHostRevenue(m.nd, sr, hostConfig)
    IN  [err |-> "nil", newRev |-> rev3, nd |-> rv.nd]

constructAndVerifyNewRevision(nd, sr, uploadReq, hostConfig) ==
    IF PaybackPanics(sr.StorageContractRevisions[Len(sr.StorageContractRevisions)],
                     uploadReq)
    THEN [err |-> "panic", newRev |-> NoRev, nd |-> nd] ELSE
    LET currentRev == sr.StorageContractRevisions[Len(sr.StorageContractRevisions)]
        rev0 == [currentRev EXCEPT !.NewRevisionNumber = uploadReq.NewRevisionNumber]
        rev1 == updateRevisionFileSize(rev0, uploadReq)
    IN  Bind(calcAndUpdateRevisionMerkleRoot(nd, rev1), LAMBDA m :
        Bind(updateRevisionMissedAndValidPayback(m.nd, m.newRev, currentRev, uploadReq),
             LAMBDA rev3 :
        Bind(calcHostRevenue(m.nd, sr, hostConfig), LAMBDA rv :
        \* sr.SectorRoots, nd.newRoots = nd.newRoots, sr.SectorRoots
        Bind(uploadRevisionValidation([sr EXCEPT !.SectorRoots = rv.nd.newRoots],
                                      rev3, rv.hostRevenue), LAMBDA verr :
        IF verr # "nil"
        THEN [err |-> verr, newRev |-> NoRev,
              nd |-> [rv.nd EXCEPT !.newRoots = sr.SectorRoots]]
        ELSE [err |-> "nil", newRev |-> rev3, nd |-> rv.nd]))))

(***************************************************************************)
(* constructUploadMerkleProof and its helpers                               *)
(***************************************************************************)
\* the members of a set of numbers, ascending
RECURSIVE SortedSeq(_)
SortedSeq(S) ==
    IF S = {} THEN <<>>
    ELSE LET m == CHOOSE x \in S : \A y \in S : x <= y
         IN  <<m>> \o SortedSeq(S \ {m})

calcAndSortProofRanges(sr, nd) ==
    LET oldNumSectors == Len(sr.SectorRoots)
        idx == SortedSeq({i \in nd.sectorsChanged : i < oldNumSectors})
    IN  [k \in 1..Len(idx) |-> Limit(idx[k], idx[k] + 1)]

calcLeafHashes(proofRanges, sr) ==
    [k \in 1..Len(proofRanges) |-> sr.SectorRoots[proofRanges[k].Left + 1]]

calcOldHashSet(sr, proofRanges) ==
    Sha256DiffProof(sr.SectorRoots, proofRanges, Len(sr.SectorRoots))

\* [err, merkleProof, nd]
constructUploadMerkleProof(nd, sr) ==
    LET proofRanges == calcAndSortProofRanges(sr, nd)
        leafHashes  == calcLeafHashes(proofRanges, sr)
        old         == calcOldHashSet(sr, proofRanges)
        merkleProof == [OldSubtreeHashes |-> old.proof,
                        OldLeafHashes    |-> leafHashes,
                        NewMerkleRoot    |-> nd.newMerkleRoot]
    IN  IF old.err # "nil"
        THEN [err |-> "failed to construct upload merkle proof",
              merkleProof |-> NoProof, nd |-> nd]
        ELSE [err |-> "nil", merkleProof |-> merkleProof,
              nd |-> [nd EXCEPT !.merkleProof = merkleProof]]

(***************************************************************************)
(* hostSignAndUpdateRevision: [err, newRev]                                 *)
(***************************************************************************)
\* the host's signature of a revision (wallet.SignHash of its RLP hash)
HostSignature(rev) == [signer |-> "host", number |-> rev.NewRevisionNumber]

\* the client's signature of a revision
ClientSignature(rev) == [signer |-> "client", number |-> rev.NewRevisionNumber]

hostSignAndUpdateRevision(newRev, clientRevisionSign, walletFound, signed) ==
    IF ~walletFound THEN [err |-> "cannot find the wallet", newRev |-> newRev]
    ELSE IF ~signed THEN [err |-> "failed to sign", newRev |-> newRev]
    ELSE [err |-> "nil",
          newRev |-> [newRev EXCEPT
                        !.Signatures = <<clientRevisionSign, HostSignature(newRev)>>]]

(***************************************************************************)
(* updateStorageResponsibilityUpload                                        *)
(***************************************************************************)
calcBandwidthRevenueForProof(nd, subtreeHashes, leafHashes, downloadBandwidthPrice) ==
    nd.bandwidthRevenue
        + downloadBandwidthPrice * ((subtreeHashes + leafHashes) * HashSize)

\* as updateStorageResponsibilityUpload, with the new revision not appended
updateStorageResponsibilityUploadNoRevision(nd, sr, hostConfig, newRev) ==
    LET bandwidthRevenue ==
            calcBandwidthRevenueForProof(nd, Len(nd.merkleProof.OldSubtreeHashes),
                Len(nd.merkleProof.OldLeafHashes), hostConfig.DownloadBandwidthPrice)
    IN  [sr EXCEPT
            !.SectorRoots = nd.newRoots,
            !.PotentialStorageRevenue = sr.PotentialStorageRevenue + nd.storageRevenue,
            !.RiskedStorageDeposit = sr.RiskedStorageDeposit + nd.newDeposit,
            !.PotentialUploadRevenue = sr.PotentialUploadRevenue + bandwidthRevenue]

updateStorageResponsibilityUpload(nd, sr, hostConfig, newRev) ==
    LET bandwidthRevenue ==
            calcBandwidthRevenueForProof(nd, Len(nd.merkleProof.OldSubtreeHashes),
                Len(nd.merkleProof.OldLeafHashes), hostConfig.DownloadBandwidthPrice)
    IN  [sr EXCEPT
            !.SectorRoots = nd.newRoots,
            !.PotentialStorageRevenue = sr.PotentialStorageRevenue + nd.storageRevenue,
            !.RiskedStorageDeposit = sr.RiskedStorageDeposit + nd.newDeposit,
            !.PotentialUploadRevenue = sr.PotentialUploadRevenue + bandwidthRevenue,
            !.StorageContractRevisions = Append(sr.StorageContractRevisions, newRev)]

(***************************************************************************)
(* handleClientUploadCommitResp: what the client's answer to the host's    *)
(* signature leads to: "commit", or the error returned.                     *)
(***************************************************************************)
\* as handleClientUploadCommitResp, taking a failed commit for a success
handleClientUploadCommitRespLax(code) ==
    CASE code = "ClientCommitSuccessMsg"  -> "commit"
      [] code = "ClientCommitFailedMsg"   -> "commit"
      [] code = "ClientNegotiateErrorMsg" -> "ErrClientNegotiate"
      [] OTHER -> "failed to reconize the message code"

handleClientUploadCommitResp(code) ==
    CASE code = "ClientCommitSuccessMsg"  -> "commit"
      [] code = "ClientCommitFailedMsg"   -> "ErrClientCommit"
      [] code = "ClientNegotiateErrorMsg" -> "ErrClientNegotiate"
      [] OTHER -> "failed to reconize the message code"

(***************************************************************************)
(* The host's persistence (modifyStorageResponsibility and                 *)
(* rollbackStorageResponsibility behind the Protocol interface): a call    *)
(* either takes effect as a whole or fails and changes nothing.            *)
(* Both give [err, db, sectors].                                            *)
(***************************************************************************)
SectorRootSet == {Sha256MerkleTreeRoot(1), Sha256MerkleTreeRoot(2)}

Occurrences(seq, x) == Cardinality({i \in 1..Len(seq) : seq[i] = x})

ModifyStorageResponsibility(dbv, sectorsv, sr, sectorsRemoved, sectorsGained, ok) ==
    IF ~ok THEN [err |-> "modify failed", db |-> dbv, sectors |-> sectorsv]
    ELSE [err |-> "nil", db |-> sr,
          sectors |-> [r \in SectorRootSet |->
                          sectorsv[r] + Occurrences(sectorsGained, r)
                                      - Occurrences(sectorsRemoved, r)]]

RollbackUploadStorageResponsibility(dbv, sectorsv, oldSr, sectorsGained, sectorsRemoved, ok) ==
    IF ~ok THEN [err |-> "rollback failed", db |-> dbv, sectors |-> sectorsv]
    ELSE [err |-> "nil", db |-> oldSr,
          sectors |-> [r \in SectorRootSet |->
                          sectorsv[r] - Occurrences(sectorsGained, r)
                                      + Occurrences(sectorsRemoved, r)]]

(***************************************************************************)
(* ContractUploadHandler.  A handler record is one call of it:             *)
(*   pc            where the call stands                                    *)
(*   nd            its uploadNegotiationData                                *)
(*   sr            the responsibility it read                               *)
(*   newRev        the revision it built                                    *)
(*   negotiateErr  the error it returned with ("nil" for none)              *)
(*   sent          the messages it has sent to the client, in order         *)
(*   reqNumber     the NewRevisionNumber of the request it decoded          *)
(*   lastRecv      the code of the commit answer it read, "none" before     *)
(*   rollbackErr   what RollbackUploadStorageResponsibility returned, which *)
(*                 the handler drops; "none" when it was not called         *)
(*   actions       the upload actions of the request being served           *)
(***************************************************************************)
Handlers == 1..NumHandlers

ContractID == "contract"

IdleHandler == [pc |-> "idle", nd |-> ZeroNd, sr |-> NoSr, newRev |-> NoRev,
                negotiateErr |-> "nil", sent |-> <<>>, reqNumber |-> 0,
                lastRecv |-> "none", rollbackErr |-> "none", actions |-> <<>>]

Msg(code, body) == [code |-> code, body |-> body]

\* the deferred handleNegotiationErr: an error is reported to the client
handleNegotiationErr(negotiateErr, sent) ==
    IF negotiateErr = "nil" THEN sent
    ELSE Append(sent, Msg("HostNegotiateErrorMsg", negotiateErr))

\* the handler returns with negotiateErr = err
Return(hrec, err) ==
    [hrec EXCEPT !.pc = "done", !.nd = ZeroNd, !.sr = NoSr, !.newRev = NoRev,
                 !.negotiateErr = err, !.actions = <<>>,
                 !.sent = handleNegotiationErr(err, hrec.sent)]

\* a panic unwinds the handler; no error was assigned, so nothing is sent
Panic(hrec) ==
    [hrec EXCEPT !.pc = "panicked", !.nd = ZeroNd, !.sr = NoSr, !.newRev = NoRev,
                 !.actions = <<>>]

\* h.GetStorageResponsibility: [err, sr]
GetStorageResponsibility(dbv, storageContractID) ==
    IF storageContractID = ContractID THEN [err |-> "nil", sr |-> dbv]
    ELSE [err |-> "not found", sr |-> NoSr]

\* From the upload request to the wait for the client's revision signature:
\* decodeUploadReqAndGetSr, parseAndHandleUploadActions,
\* constructAndVerifyNewRevision and merkleProofNegotiation up to its read.
HostOnUploadRequest(dbv, cfg, decoded, uploadReq, sendOk) ==
    LET start == [IdleHandler EXCEPT
                     !.reqNumber = IF decoded THEN uploadReq.NewRevisionNumber ELSE 0]
    IN
    IF ~decoded THEN Return(start, "failed to decode the upload request") ELSE
    Bind(GetStorageResponsibility(dbv, uploadReq.StorageContractID), LAMBDA got :
    IF got.err # "nil"
    THEN Return(start, "failed to retrieve the storage responsibility") ELSE
    Bind(parseAndHandleUploadActions(uploadReq,
                                     [ZeroNd EXCEPT !.srSnapshot = got.sr],
                                     got.sr, cfg.UploadBandwidthPrice), LAMBDA pa :
    IF pa.err # "nil" THEN Return(start, pa.err) ELSE
    Bind(constructAndVerifyNewRevision(pa.nd, got.sr, uploadReq, cfg), LAMBDA cv :
    IF cv.err = "panic" THEN Panic(start) ELSE
    IF cv.err # "nil" THEN Return(start, cv.err) ELSE
    Bind(constructUploadMerkleProof(cv.nd, got.sr), LAMBDA mp :
    IF mp.err # "nil" THEN Return(start, mp.err) ELSE
    IF ~sendOk THEN Return(start, "host failed to send upload merkleProof") ELSE
    [start EXCEPT
        !.pc = "waitClientRevSign", !.nd = mp.nd, !.sr = got.sr,
        !.newRev = cv.newRev, !.actions = uploadReq.Actions,
        !.sent = <<Msg("UploadMerkleProofMsg", mp.merkleProof)>>]))))

\* waitAndHandleClientRevSignResp: [err, clientRevisionSign]
waitAndHandleClientRevSignResp(readOk, msg) ==
    IF ~readOk THEN [err |-> "failed to read the client revision sign", sign |-> <<>>]
    ELSE IF msg.code = "ClientNegotiateErrorMsg"
    THEN [err |-> "ErrClientNegotiate", sign |-> <<>>]
    ELSE IF msg.code # "UploadClientRevisionSignMsg"
    THEN [err |-> "failed to decode the client revision sign", sign |-> <<>>]
    ELSE [err |-> "nil", sign |-> msg.body]

\* From the client's revision signature to the wait for its commit answer:
\* the rest of merkleProofNegotiation, hostSignAndUpdateRevision, and
\* hostRevisionSignNegotiation up to the read.
HostOnClientRevSign(hrec, readOk, msg, walletFound, signed, sendOk) ==
    LET cs == waitAndHandleClientRevSignResp(readOk, msg)
        hu == hostSignAndUpdateRevision(hrec.newRev, cs.sign, walletFound, signed)
    IN  IF cs.err # "nil" THEN Return(hrec, cs.err)
        ELSE IF hu.err # "nil" THEN Return(hrec, hu.err)
        ELSE IF ~sendOk THEN Return(hrec, "failed to send the host rev sign")
        ELSE [hrec EXCEPT
                !.pc = "waitClientCommit",
                !.newRev = hu.newRev,
                !.sent = Append(hrec.sent,
                                Msg("UploadHostRevisionSignMsg",
                                    hu.newRev.Signatures[hostSignIndex + 1]))]

\* waitAndHandleClientCommitRespUpload and the first half of
\* handleClientUploadSuccessCommit, through ModifyStorageResponsibility:
\* [h, db, sectors]
HostOnCommitResp(hrec0, dbv, sectorsv, cfg, readOk, code, modifyOk) ==
    LET hrec == [hrec0 EXCEPT !.lastRecv = IF readOk THEN code ELSE "read error"]
        what == handleClientUploadCommitResp(code)
        sr1  == updateStorageResponsibilityUpload(hrec.nd, hrec.sr, cfg, hrec.newRev)
        mod  == ModifyStorageResponsibility(dbv, sectorsv, sr1, <<>>,
                                            hrec.nd.sectorGained, modifyOk)
    IN  IF ~readOk
        THEN [h |-> Return(hrec, "host falied to wait for the client's response"),
              db |-> dbv, sectors |-> sectorsv]
        ELSE IF what # "commit"
        THEN [h |-> Return(hrec, what), db |-> dbv, sectors |-> sectorsv]
        ELSE IF mod.err # "nil"
        THEN [h |-> Return(hrec, "ErrHostCommit"), db |-> dbv, sectors |-> sectorsv]
        ELSE [h |-> [hrec EXCEPT !.pc = "sendAck", !.sr = sr1],
              db |-> mod.db, sectors |-> mod.sectors]

\* as HostOnAck, rolling back to the record just committed
HostOnAckWrongSnapshot(hrec, dbv, sectorsv, sendOk, rollbackOk) ==
    LET rb == RollbackUploadStorageResponsibility(dbv, sectorsv, hrec.sr,
                                                  hrec.nd.sectorGained, <<>>, rollbackOk)
    IN  IF sendOk
        THEN [h |-> Return([hrec EXCEPT !.sent = Append(hrec.sent, Msg("HostAckMsg", <<>>))],
                           "nil"),
              db |-> dbv, sectors |-> sectorsv]
        ELSE [h |-> Return([hrec EXCEPT !.rollbackErr = rb.err],
                           "failed to send the host ack message"),
              db |-> rb.db, sectors |-> rb.sectors]

\* as HostOnAck, with the acknowledgement sent a second time
HostOnAckTwice(hrec, dbv, sectorsv, sendOk, rollbackOk) ==
    LET rb == RollbackUploadStorageResponsibility(dbv, sectorsv, hrec.nd.srSnapshot,
                                                  hrec.nd.sectorGained, <<>>, rollbackOk)
    IN  IF sendOk
        THEN [h |-> Return([hrec EXCEPT !.sent = hrec.sent
                                          \o <<Msg("HostAckMsg", <<>>),
                                               Msg("HostAckMsg", <<>>)>>],
                           "nil"),
              db |-> dbv, sectors |-> sectorsv]
        ELSE [h |-> Return([hrec EXCEPT !.rollbackErr = rb.err],
                           "failed to send the host ack message"),
              db |-> rb.db, sectors |-> rb.sectors]

\* The second half of handleClientUploadSuccessCommit: SendHostAckMsg and,
\* when it fails, the rollback, whose error is dropped: [h, db, sectors]
HostOnAck(hrec, dbv, sectorsv, sendOk, rollbackOk) ==
    LET rb == RollbackUploadStorageResponsibility(dbv, sectorsv, hrec.nd.srSnapshot,
                                                  hrec.nd.sectorGained, <<>>, rollbackOk)
    IN  IF sendOk
        THEN [h |-> Return([hrec EXCEPT !.sent = Append(hrec.sent, Msg("HostAckMsg", <<>>))],
                           "nil"),
              db |-> dbv, sectors |-> sectorsv]
        ELSE [h |-> Return([hrec EXCEPT !.rollbackErr = rb.err],
                           "failed to send the host ack message"),
              db |-> rb.db, sectors |-> rb.sectors]

(***************************************************************************)
(* StorageClient.Write, from the revision it proposes on.  The function     *)
(* starts from an empty revision and nil price totals; here the revision    *)
(* it works on, the cost and the deposit are given.                         *)
(***************************************************************************)
\* the signature Write sends: it signs nothing yet
NilSignature == [signer |-> "nobody", number |-> 0]

\* NewRevision(current, cost): the next revision number, cost moved from the
\* client's valid payout to the host's and taken off the client's missed one
NewRevision(current, cost) ==
    [current EXCEPT
        !.NewRevisionNumber = current.NewRevisionNumber + 1,
        !.NewValidProofOutputs[1].Value = current.NewValidProofOutputs[1].Value - cost,
        !.NewValidProofOutputs[2].Value = current.NewValidProofOutputs[2].Value + cost,
        !.NewMissedProofOutputs[1].Value = current.NewMissedProofOutputs[1].Value - cost]

RECURSIVE WriteNewFileSize(_, _)
WriteNewFileSize(size, actions) ==
    IF Len(actions) = 0 THEN size
    ELSE WriteNewFileSize(
            IF actions[1].Type = "Append" THEN size + SectorSize ELSE size,
            Tail(actions))

\* the revision Write creates: [rev]
WriteRevision(contractRevision, actions, cost, deposit) ==
    LET rev == NewRevision(contractRevision, cost)
    IN  [rev EXCEPT
            !.NewMissedProofOutputs[2].Value =
                rev.NewMissedProofOutputs[2].Value - deposit,
            !.NewFileSize = WriteNewFileSize(contractRevision.NewFileSize, actions)]

\* the storage.UploadRequest Write sends
WriteRequest(contractRevision, actions, rev) ==
    [StorageContractID    |-> contractRevision.ParentID,
     Actions              |-> actions,
     NewRevisionNumber    |-> rev.NewRevisionNumber,
     NewValidProofValues  |-> [i \in 1..Len(rev.NewValidProofOutputs) |->
                                 rev.NewValidProofOutputs[i].Value],
     NewMissedProofValues |-> [i \in 1..Len(rev.NewMissedProofOutputs) |->
                                 rev.NewMissedProofOutputs[i].Value]]

\* storage.CalculateProofRanges: the changed sectors of the old file
RECURSIVE ChangedSectors(_, _)
ChangedSectors(actions, numSectors) ==
    IF Len(actions) = 0 THEN {}
    ELSE IF actions[1].Type = "Append"
    THEN {numSectors} \cup ChangedSectors(Tail(actions), numSectors + 1)
    ELSE ChangedSectors(Tail(actions), numSectors)

CalculateProofRanges(actions, numSectors) ==
    LET idx == SortedSeq({i \in ChangedSectors(actions, numSectors) : i < numSectors})
    IN  [k \in 1..Len(idx) |-> Limit(idx[k], idx[k] + 1)]

\* storage.ModifyLeaves: the leaf hashes after the actions
RECURSIVE ModifyLeaves(_, _, _)
ModifyLeaves(leafHashes, actions, numSectors) ==
    IF Len(actions) = 0 THEN leafHashes
    ELSE IF actions[1].Type = "Append"
    THEN ModifyLeaves(Append(leafHashes, Sha256MerkleTreeRoot(actions[1].Data)),
                      Tail(actions), numSectors + 1)
    ELSE ModifyLeaves(leafHashes, Tail(actions), numSectors)

\* storage.ModifyProofRanges: the proof ranges after the actions
RECURSIVE ModifyProofRanges(_, _, _)
ModifyProofRanges(proofRanges, actions, numSectors) ==
    IF Len(actions) = 0 THEN proofRanges
    ELSE IF actions[1].Type = "Append"
    THEN ModifyProofRanges(Append(proofRanges, Limit(numSectors, numSectors + 1)),
                           Tail(actions), numSectors + 1)
    ELSE ModifyProofRanges(proofRanges, Tail(actions), numSectors)

\* "Verify merkle proof": "nil" or the error Write returns
WriteVerifyProof(contractRevision, actions, merkleResp) ==
    LET numSectors   == contractRevision.NewFileSize \div SectorSize
        proofRanges  == CalculateProofRanges(actions, numSectors)
        proofHashes  == merkleResp.OldSubtreeHashes
        leafHashes   == merkleResp.OldLeafHashes
        oldRoot      == contractRevision.NewFileMerkleRoot
        newRoot      == merkleResp.NewMerkleRoot
        leafHashes2  == ModifyLeaves(leafHashes, actions, numSectors)
        proofRanges2 == ModifyProofRanges(proofRanges, actions, numSectors)
    IN  IF ~VerifyDiffProof(proofRanges, numSectors, proofHashes, leafHashes, oldRoot)
        THEN "invalid Merkle proof for old root"
        ELSE IF ~VerifyDiffProof(proofRanges2, numSectors, proofHashes, leafHashes2,
                                 newRoot)
        THEN "invalid Merkle proof for new root"
        ELSE "nil"

\* Write up to its first read: the revision is created and the request sent
WriteSendUploadRequest(w, cost, deposit) ==
    LET rev == WriteRevision(w.contractRevision, w.actions, cost, deposit)
    IN  [w EXCEPT !.pc = "readMerkleProof", !.rev = rev,
                  !.out = <<Msg("ContractUploadReqMsg",
                                WriteRequest(w.contractRevision, w.actions, rev))>>]

\* Write from the host's first message to its second read.  The message is
\* decoded as a Merkle proof whatever its code is; one that is none does
\* not decode.
WriteOnMerkleProof(w, msg) ==
    LET verr == WriteVerifyProof(w.contractRevision, w.actions, msg.body)
        clientRevisionSign == NilSignature
    IN  IF msg.code # "UploadMerkleProofMsg"
        THEN [w EXCEPT !.pc = "returned", !.err = "decode", !.read = w.read + 1]
        ELSE IF verr # "nil"
        THEN [w EXCEPT !.pc = "returned", !.err = verr, !.read = w.read + 1]
        ELSE [w EXCEPT
                !.pc = "readHostSign", !.read = w.read + 1,
                !.rev = [w.rev EXCEPT !.NewFileMerkleRoot = msg.body.NewMerkleRoot,
                                      !.Signatures[1] = clientRevisionSign],
                !.out = Append(w.out, Msg("UploadClientRevisionSignMsg",
                                          clientRevisionSign))]

\* Write from the host's second message to its return
WriteOnHostRevisionSign(w, msg) ==
    LET clientRevisionSign == NilSignature
    IN  IF msg.code # "UploadHostRevisionSignMsg"
        THEN [w EXCEPT !.pc = "returned", !.err = "decode", !.read = w.read + 1]
        ELSE [w EXCEPT !.pc = "returned", !.err = "nil", !.read = w.read + 1,
                       !.rev = [w.rev EXCEPT !.Signatures[2] = clientRevisionSign]]

(***************************************************************************)
(* The proof engine as a state machine: a leaf sequence and a limit list   *)
(* are drawn, getLimitStorageProof builds the proof over a cached source,  *)
(* one hash may then be replaced, and checkLimitStorageProof gives its     *)
(* verdict.                                                                 *)
(***************************************************************************)
LeafHashes == {<<1>>, <<2>>}

\* the values a replaced hash may take
TamperValues == LeafHashes \cup {<<3>>, nodeTotal(<<1>>, <<2>>), NilHash}

LeafSeqs == UNION {[1..n -> LeafHashes] : n \in 0..MaxLeaves}

\* every sorted list of disjoint non-empty limits inside [lo, n)
RECURSIVE ValidLimitLists(_, _)
ValidLimitLists(lo, n) ==
    {<<>>} \cup
    UNION {UNION {{<<Limit(l, r)>> \o rest : rest \in ValidLimitLists(r, n)}
                  : r \in (l + 1)..n}
           : l \in lo..(n - 1)}

\* every list of at most MaxRawLimits limits with ends in 0..n+1, valid or not
RawLimitLists(n) ==
    UNION {[1..k -> {Limit(l, r) : l \in 0..(n + 1), r \in 0..(n + 1)}]
           : k \in 0..MaxRawLimits}

InRange(limits, n) ==
    checkLimitList(limits) /\ \A i \in 1..Len(limits) : limits[i].Right <= n

\* the leaf hashes the limits cover, in order
RECURSIVE ClaimedLeaves(_, _)
ClaimedLeaves(leaves, limits) ==
    IF Len(limits) = 0 THEN <<>>
    ELSE SubSeq(leaves, limits[1].Left + 1, Min(limits[1].Right, Len(leaves)))
         \o ClaimedLeaves(leaves, Tail(limits))

MerkleInit ==
    \E leaves \in LeafSeqs :
      \E limits \in ValidLimitLists(0, Len(leaves))
                      \cup (IF \A i \in 1..Len(leaves) : leaves[i] = <<1>>
                            THEN RawLimitLists(Len(leaves)) ELSE {}) :
        mk = [pc |-> "input", leaves |-> leaves, limits |-> limits,
              proof |-> <<>>, getErr |-> "nil", leafRoots |-> leaves,
              claimed |-> <<>>, root |-> NilHash,
              tampered |-> "no", verdict |-> [ok |-> FALSE, err |-> "nil"]]
    /\ db = NoSr /\ sectors = <<>> /\ hs = <<>> /\ config = <<>> /\ wr = <<>>
    /\ cc = <<>> /\ rd = <<>> /\ lk = <<>>

\* GetLimitStorageProof over NewCachedSubtreeRoot(leaves)
MerkleGet ==
    /\ mk.pc = "input"
    /\ LET got == getLimitStorageProof(mk.limits, mk.leaves)
       IN  mk' = [mk EXCEPT !.pc = "built",
                            !.proof = got.proof,
                            !.getErr = got.err,
                            !.leafRoots = got.leafRoots,
                            !.claimed = ClaimedLeaves(mk.leaves, mk.limits),
                            !.root = CachedTreeRoot(mk.leaves)]
    /\ UNCHANGED <<db, sectors, hs, config, wr, cc, rd, lk>>

Verifies ==
    LET v == checkLimitStorageProof(mk.claimed, mk.limits, mk.proof, mk.root)
    IN  v.ok /\ v.err = "nil"

\* one proof hash of a verifying proof is replaced by a different value
MerkleTamperProof ==
    /\ mk.pc = "built" /\ mk.tampered = "no" /\ Verifies
    /\ \E i \in 1..Len(mk.proof) : \E v \in TamperValues :
         /\ v # mk.proof[i]
         /\ mk' = [mk EXCEPT !.proof[i] = v, !.tampered = "proof"]
    /\ UNCHANGED <<db, sectors, hs, config, wr, cc, rd, lk>>

\* one claimed leaf hash of a verifying proof is replaced by a different value
MerkleTamperLeaf ==
    /\ mk.pc = "built" /\ mk.tampered = "no" /\ Verifies
    /\ \E i \in 1..Len(mk.claimed) : \E v \in TamperValues :
         /\ v # mk.claimed[i]
         /\ mk' = [mk EXCEPT !.claimed[i] = v, !.tampered = "leaf"]
    /\ UNCHANGED <<db, sectors, hs, config, wr, cc, rd, lk>>

\* the root of a verifying proof is replaced by a different value
MerkleTamperRoot ==
    /\ mk.pc = "built" /\ mk.tampered = "no" /\ Verifies
    /\ \E v \in TamperValues \cup {CachedTreeRoot(l) : l \in LeafSeqs} :
         /\ v # mk.root
         /\ mk' = [mk EXCEPT !.root = v, !.tampered = "root"]
    /\ UNCHANGED <<db, sectors, hs, config, wr, cc, rd, lk>>

\* CheckLimitStorageProof over NewLeafRootCached(claimed)
MerkleCheck ==
    /\ mk.pc = "built"
    /\ mk' = [mk EXCEPT !.pc = "checked",
                        !.verdict = checkLimitStorageProof(mk.claimed, mk.limits,
                                                           mk.proof, mk.root)]
    /\ UNCHANGED <<db, sectors, hs, config, wr, cc, rd, lk>>

MerkleNext ==
    MerkleGet \/ MerkleTamperProof \/ MerkleTamperLeaf \/ MerkleTamperRoot
    \/ MerkleCheck

vars == <<mk, db, sectors, hs, config, wr, cc, rd, lk>>

SpecMerkle == MerkleInit /\ [][MerkleNext]_vars

(***************************************************************************)
(* The host serving uploads on one contract: NumHandlers sessions, each    *)
(* running ContractUploadHandler once, against clients that may send       *)
(* anything, over connections and a database that may fail.  The handlers  *)
(* are goroutines of one process; a panic in one of them ends it.          *)
(***************************************************************************)
HostConfigs ==
    {[UploadBandwidthPrice |-> 0, StoragePrice |-> 0, Deposit |-> 1,
      DownloadBandwidthPrice |-> 1],
     [UploadBandwidthPrice |-> 1, StoragePrice |-> 1, Deposit |-> 1,
      DownloadBandwidthPrice |-> 1]}

\* the revision that came with the contract, for a file of n sectors
InitialRevision(roots) ==
    [ParentID |-> ContractID, NewRevisionNumber |-> 1,
     NewFileSize |-> Len(roots) * SectorSize,
     NewFileMerkleRoot |-> Sha256CachedTreeRoot2(roots),
     NewWindowStart |-> 10, NewWindowEnd |-> 20,
     NewValidProofOutputs  |-> <<DxcoinCharge(2, "client"), DxcoinCharge(0, "host")>>,
     NewMissedProofOutputs |-> <<DxcoinCharge(2, "client"), DxcoinCharge(1, "host")>>,
     Signatures |-> <<[signer |-> "client", number |-> 1],
                      [signer |-> "host", number |-> 1]>>]

InitialSr(n) ==
    LET roots == [i \in 1..n |-> Sha256MerkleTreeRoot(1)]
    IN  [SectorRoots |-> roots,
         StorageContractRevisions |-> <<InitialRevision(roots)>>,
         PotentialStorageRevenue |-> 0, RiskedStorageDeposit |-> 0,
         PotentialUploadRevenue |-> 0]

LatestRevision(sr) == sr.StorageContractRevisions[Len(sr.StorageContractRevisions)]

\* the upload actions a request may carry
UploadActions ==
    {[Type |-> "Append", Data |-> d] : d \in {1, 2}}
        \cup {[Type |-> "Unknown", Data |-> 0]}

UploadActionLists == UNION {[1..k -> UploadActions] : k \in 0..MaxActions}

\* the payouts a client may propose on top of revision cur: x moves from its
\* valid payout to the host's, its missed payout drops by x
ProposedValues(outputs, x, toHost) ==
    [i \in 1..Len(outputs) |->
        IF i = 1 THEN outputs[i].Value - x
        ELSE IF i = 2 /\ toHost THEN outputs[i].Value + x
        ELSE outputs[i].Value]

\* the storage.UploadRequest messages a client may send about the contract
\* as the host holds it
UploadRequests(dbv) ==
    LET cur == LatestRevision(dbv)
    IN  {[StorageContractID   |-> ContractID,
          Actions             |-> actions,
          NewRevisionNumber   |-> number,
          NewValidProofValues  |->
              SubSeq(ProposedValues(cur.NewValidProofOutputs, x, TRUE), 1, k),
          NewMissedProofValues |->
              SubSeq(ProposedValues(cur.NewMissedProofOutputs, x, FALSE), 1, k)] :
            actions \in UploadActionLists,
            number \in {cur.NewRevisionNumber + d : d \in 0..2},
            x \in {0, 1},
            k \in {2, Len(cur.NewValidProofOutputs)}}

\* a request about a contract the host does not hold
UnknownContractRequest ==
    [StorageContractID |-> "unknown", Actions |-> <<>>, NewRevisionNumber |-> 1,
     NewValidProofValues |-> <<0, 0>>, NewMissedProofValues |-> <<0, 0>>]

Crashed == \E h \in Handlers : hs[h].pc = "panicked"

Init ==
    /\ mk = <<>>
    /\ \E n \in 0..MaxInitSectors :
         /\ db = InitialSr(n)
         /\ sectors = [r \in SectorRootSet |->
                          Occurrences(InitialSr(n).SectorRoots, r)]
    /\ hs = [h \in Handlers |-> IdleHandler]
    /\ config \in HostConfigs
    /\ wr = <<>>
    /\ cc = <<>> /\ rd = <<>> /\ lk = <<>>

\* a session's upload request arrives and its handler runs to its first read
UploadRequest(h) ==
    /\ ~Crashed /\ hs[h].pc = "idle"
    /\ \/ \E uploadReq \in UploadRequests(db) : \E sendOk \in BOOLEAN :
            hs' = [hs EXCEPT ![h] =
                      HostOnUploadRequest(db, config, TRUE, uploadReq, sendOk)]
       \/ \E decoded \in BOOLEAN :
            hs' = [hs EXCEPT ![h] =
                      HostOnUploadRequest(db, config, decoded,
                                          UnknownContractRequest, TRUE)]
    /\ UNCHANGED <<mk, db, sectors, config, wr, cc, rd, lk>>

\* what a client may answer to the Merkle proof
RevSignAnswers(newRev) ==
    {Msg("UploadClientRevisionSignMsg", ClientSignature(newRev)),
     Msg("ClientNegotiateErrorMsg", <<>>),
     Msg("Undecodable", <<>>)}

\* the handler reads the client's answer to the proof and runs to its next read
ClientRevSign(h) ==
    /\ ~Crashed /\ hs[h].pc = "waitClientRevSign"
    /\ \E msg \in RevSignAnswers(hs[h].newRev) : \E readOk, walletFound, signed, sendOk \in BOOLEAN :
         hs' = [hs EXCEPT ![h] =
                   HostOnClientRevSign(hs[h], readOk, msg, walletFound, signed, sendOk)]
    /\ UNCHANGED <<mk, db, sectors, config, wr, cc, rd, lk>>

\* the codes a client may answer to the host's signature
CommitAnswers ==
    {"ClientCommitSuccessMsg", "ClientCommitFailedMsg", "ClientNegotiateErrorMsg",
     "HostAckMsg"}

\* the handler reads the client's commit answer and, on success, modifies the
\* responsibility
ClientCommitResp(h) ==
    /\ ~Crashed /\ hs[h].pc = "waitClientCommit"
    /\ \E code \in CommitAnswers : \E readOk, modifyOk \in BOOLEAN :
         \E r \in {HostOnCommitResp(hs[h], db, sectors, config, readOk, code, modifyOk)} :
             /\ hs' = [hs EXCEPT ![h] = r.h]
             /\ db' = r.db
             /\ sectors' = r.sectors
    /\ UNCHANGED <<mk, config, wr, cc, rd, lk>>

\* the handler sends its acknowledgement, and rolls back when that fails
HostAck(h) ==
    /\ ~Crashed /\ hs[h].pc = "sendAck"
    /\ \E sendOk, rollbackOk \in BOOLEAN :
         \E r \in {HostOnAck(hs[h], db, sectors, sendOk, rollbackOk)} :
             /\ hs' = [hs EXCEPT ![h] = r.h]
             /\ db' = r.db
             /\ sectors' = r.sectors
    /\ UNCHANGED <<mk, config, wr, cc, rd, lk>>

Next ==
    \E h \in Handlers :
        UploadRequest(h) \/ ClientRevSign(h) \/ ClientCommitResp(h) \/ HostAck(h)

Spec == Init /\ [][Next]_vars

(***************************************************************************)
(* One Write against one ContractUploadHandler, both honest, with nothing  *)
(* failing: every send arrives, every read returns the next message, the   *)
(* wallet signs and the database stores.  A message is read when it has    *)
(* been sent; a party whose next message was not sent waits.               *)
(***************************************************************************)
\* the sector roots the contract may hold before the Write
WriteSectorRoots == UNION {[1..n -> SectorRootSet] : n \in 0..MaxWriteSectors}

\* the append actions a Write may be called with
WriteActionLists ==
    UNION {[1..k -> {[Type |-> "Append", Data |-> d] : d \in {1, 2}}]
           : k \in 1..MaxActions}

\* the session's handler
Server == CHOOSE h \in Handlers : \A g \in Handlers : h <= g

WriteInit ==
    /\ mk = <<>>
    /\ \E roots \in WriteSectorRoots :
         /\ db = [InitialSr(0) EXCEPT
                    !.SectorRoots = roots,
                    !.StorageContractRevisions = <<InitialRevision(roots)>>]
         /\ sectors = [r \in SectorRootSet |-> Occurrences(roots, r)]
         /\ \E actions \in WriteActionLists :
              wr = [pc |-> "start", contractRevision |-> InitialRevision(roots),
                    actions |-> actions, rev |-> NoRev, out |-> <<>>, read |-> 0,
                    err |-> "nil"]
    /\ hs = [h \in Handlers |-> IdleHandler]
    /\ config \in HostConfigs
    /\ cc = <<>> /\ rd = <<>> /\ lk = <<>>

\* Write creates its revision and sends the upload request
WriteStart ==
    /\ wr.pc = "start"
    /\ \E cost, deposit \in 0..1 : wr' = WriteSendUploadRequest(wr, cost, deposit)
    /\ UNCHANGED <<mk, db, sectors, hs, config, cc, rd, lk>>

\* Write reads the next message of the host
WriteRead ==
    /\ wr.pc \in {"readMerkleProof", "readHostSign"}
    /\ Len(hs[Server].sent) > wr.read
    /\ wr' = IF wr.pc = "readMerkleProof"
             THEN WriteOnMerkleProof(wr, hs[Server].sent[wr.read + 1])
             ELSE WriteOnHostRevisionSign(wr, hs[Server].sent[wr.read + 1])
    /\ UNCHANGED <<mk, db, sectors, hs, config, cc, rd, lk>>

\* the messages of the client the handler has read, by where it stands
ServerRead ==
    CASE hs[Server].pc = "idle" -> 0
      [] hs[Server].pc = "waitClientRevSign" -> 1
      [] hs[Server].pc = "waitClientCommit" -> 2
      [] OTHER -> 3

\* the handler reads the next message of the client and runs to its next
\* read or return; after the commit it sends its acknowledgement
ServerStep ==
    /\ hs[Server].pc \in {"idle", "waitClientRevSign", "waitClientCommit", "sendAck"}
    /\ hs[Server].pc # "sendAck" => Len(wr.out) > ServerRead
    /\ \E h \in {hs[Server]} :
       \E msg \in {IF h.pc = "sendAck" THEN Msg("none", <<>>)
                    ELSE wr.out[ServerRead + 1]} :
       \E r \in {CASE h.pc = "idle" ->
                       [h |-> HostOnUploadRequest(db, config, TRUE, msg.body, TRUE),
                        db |-> db, sectors |-> sectors]
                  [] h.pc = "waitClientRevSign" ->
                       [h |-> HostOnClientRevSign(h, TRUE, msg, TRUE, TRUE, TRUE),
                        db |-> db, sectors |-> sectors]
                  [] h.pc = "waitClientCommit" ->
                       HostOnCommitResp(h, db, sectors, config, TRUE, msg.code, TRUE)
                  [] OTHER -> HostOnAck(h, db, sectors, TRUE, TRUE)} :
           /\ hs' = [hs EXCEPT ![Server] = r.h]
           /\ db' = r.db
           /\ sectors' = r.sectors
    /\ UNCHANGED <<mk, config, wr, cc, rd, lk>>

WriteNext == WriteStart \/ WriteRead \/ ServerStep

SpecWrite == WriteInit /\ [][WriteNext]_vars

(***************************************************************************)
(* StorageClient.ContractCreate.  The host is whatever the session yields: *)
(* each read of the session succeeds or fails, and the message it gave     *)
(* decodes, fails to decode, or cannot be touched at all.  A record cc     *)
(* holds                                                                    *)
(*   pc               "start", "readHostSign", "readHostRevisionSign",      *)
(*                    "returned" or "panicked"                              *)
(*   storageContract  the contract being formed, with its Signatures        *)
(*   revision         the first revision, once assembled                    *)
(*   sent             the messages sent to the host, in order               *)
(*   reads            how the reads of the session went, in order           *)
(*   decodes          how the decodes went, in order                        *)
(*   tx               whether the contract transaction was submitted        *)
(*   err              what ContractCreate returned, "nil" for success       *)
(***************************************************************************)
\* the largest payout RenterPayoutsPreTax yields here
MaxPayout == 3

\* the storage contract of ContractCreate; its Signatures field is not set
NewStorageContract(renterPayout, hostPayout) ==
    [FileSize |-> 0, FileMerkleRoot |-> NilHash, RevisionNumber |-> 0,
     ValidProofOutputs  |-> <<DxcoinCharge(renterPayout, "client"),
                              DxcoinCharge(hostPayout, "host")>>,
     MissedProofOutputs |-> <<DxcoinCharge(renterPayout, "client"),
                              DxcoinCharge(hostPayout, "host")>>,
     Signatures |-> <<>>]

\* the first revision ContractCreate assembles from the contract
NewContractRevision(storageContract) ==
    [ParentID |-> ContractID, NewRevisionNumber |-> 1,
     NewFileSize |-> storageContract.FileSize,
     NewFileMerkleRoot |-> storageContract.FileMerkleRoot,
     NewValidProofOutputs |-> storageContract.ValidProofOutputs,
     NewMissedProofOutputs |-> storageContract.MissedProofOutputs,
     Signatures |-> <<>>]

CreateReturn(c, err) == [c EXCEPT !.pc = "returned", !.err = err]

CreatePanic(c) == [c EXCEPT !.pc = "panicked"]

\* "if msg, err := session.ReadMsg(); err != nil { if err := msg.Decode(..);
\* err != nil { return err } } else { return err }": the message is decoded
\* when the read FAILED, and a read that succeeded returns its nil error
ReadHostReply(readOk, decode) ==
    IF readOk THEN "return nil"
    ELSE CASE decode = "ok"  -> "go on"
           [] decode = "err" -> "return err"
           [] OTHER          -> "panic"

\* the ways a decode of the message of a failed read can go
DecodeOutcomes == {"ok", "err", "panic"}

\* what one host reply adds to the history of the call
CreateNote(c, readOk, decode) ==
    [c EXCEPT !.reads = Append(c.reads, readOk),
              !.decodes = IF readOk THEN c.decodes ELSE Append(c.decodes, decode)]

\* ContractCreate up to its first read
ContractCreateStart(c, payoutErr, setupOk, sendOk) ==
    IF payoutErr THEN CreateReturn(c, "payout error")
    ELSE IF ~setupOk
    THEN (IF sendOk THEN CreatePanic(c) ELSE CreateReturn(c, "send error"))
    ELSE IF ~sendOk THEN CreateReturn(c, "send error")
    ELSE [c EXCEPT !.pc = "readHostSign",
                   !.sent = <<Msg("StorageContractCreationMsg", c.storageContract)>>]

\* ContractCreate from the host's contract signature to its second read
ContractCreateOnHostSign(c0, readOk, decode, hostSign, walletFound, signed, sendOk) ==
    LET c    == CreateNote(c0, readOk, decode)
        what == ReadHostReply(readOk, decode)
        sc   == c.storageContract
    IN  IF what = "return nil" THEN CreateReturn(c, "nil")
        ELSE IF what = "return err" THEN CreateReturn(c, "decode error")
        ELSE IF what = "panic" THEN CreatePanic(c)
        \* storageContract.Signatures[1] = hostSign
        ELSE IF Len(sc.Signatures) < 2 THEN CreatePanic(c)
        ELSE IF ~walletFound THEN CreateReturn(c, "find client account error")
        ELSE IF ~signed THEN CreateReturn(c, "client sign error")
        ELSE LET sc2 == [sc EXCEPT !.Signatures[2] = hostSign,
                                   !.Signatures[1] = [signer |-> "client", number |-> 0]]
                 rev == [NewContractRevision(sc) EXCEPT
                            !.Signatures = <<[signer |-> "client", number |-> 1]>>]
             IN  IF ~sendOk
                 THEN CreateReturn([c EXCEPT !.storageContract = sc2, !.revision = rev],
                                   "send revision sign by client error")
                 ELSE [c EXCEPT
                         !.pc = "readHostRevisionSign",
                         !.storageContract = sc2, !.revision = rev,
                         !.sent = Append(c.sent,
                             Msg("StorageContractCreationClientRevisionSignMsg",
                                 [ContractSign |-> sc2.Signatures[1],
                                  RevisionSign |-> rev.Signatures[1]]))]

\* ContractCreate from the host's revision signature to its return
ContractCreateOnHostRevisionSign(c0, readOk, decode, encodeOk, txOk) ==
    LET c    == CreateNote(c0, readOk, decode)
        what == ReadHostReply(readOk, decode)
    IN  IF what = "return nil" THEN CreateReturn(c, "nil")
        ELSE IF what = "return err" THEN CreateReturn(c, "decode error")
        ELSE IF what = "panic" THEN CreatePanic(c)
        ELSE IF ~encodeOk THEN CreateReturn(c, "encode error")
        ELSE IF ~txOk THEN CreateReturn(c, "Send storage contract transaction error")
        ELSE CreateReturn([c EXCEPT !.tx = TRUE], "nil")

CreateInit ==
    /\ mk = <<>> /\ db = NoSr /\ sectors = <<>> /\ hs = <<>> /\ config = <<>>
    /\ wr = <<>> /\ rd = <<>> /\ lk = <<>>
    /\ \E renterPayout, hostPayout \in 0..MaxPayout :
         cc = [pc |-> "start",
               storageContract |-> NewStorageContract(renterPayout, hostPayout),
               revision |-> NoRev, sent |-> <<>>, reads |-> <<>>, decodes |-> <<>>,
               tx |-> FALSE, err |-> "nil"]

CreateStart ==
    /\ cc.pc = "start"
    /\ \E payoutErr, setupOk, sendOk \in BOOLEAN :
         cc' = ContractCreateStart(cc, payoutErr, setupOk, sendOk)
    /\ UNCHANGED <<mk, db, sectors, hs, config, wr, rd, lk>>

\* the session yields the host's next reply, or fails
CreateRead ==
    /\ cc.pc \in {"readHostSign", "readHostRevisionSign"}
    /\ \E readOk \in BOOLEAN : \E decode \in DecodeOutcomes :
       \E walletFound, signed, sendOk \in BOOLEAN :
         cc' = IF cc.pc = "readHostSign"
               THEN ContractCreateOnHostSign(cc, readOk, decode,
                        [signer |-> "host", number |-> 0], walletFound, signed, sendOk)
               ELSE ContractCreateOnHostRevisionSign(cc, readOk, decode, signed, sendOk)
    /\ UNCHANGED <<mk, db, sectors, hs, config, wr, rd, lk>>

CreateNext == CreateStart \/ CreateRead

SpecCreate == CreateInit /\ [][CreateNext]_vars

(***************************************************************************)
(* StorageClient.Read, from the revision it pays on.  The function starts  *)
(* from an empty revision; here the contract's last revision is given.     *)
(* The host is whatever the session yields.  Sector data is modelled by    *)
(* what it is: the bytes [offset, offset + length) of the sector with a    *)
(* given root; a range proof by the sector and the segment range it was    *)
(* built for.  A record rd holds                                            *)
(*   pc           "start", "readSection", "readSignature" or "returned"    *)
(*   req          the download request                                      *)
(*   newRevision  the revision that pays for the download                   *)
(*   sent         the messages sent to the host, in order                   *)
(*   reads        the number of messages read from the session              *)
(*   next         the index of the section whose response is read next      *)
(*   written      what was written to w, in order, each with the section    *)
(*                it answered and the proof that came with it               *)
(*   failedAt     the first section whose data failed a check, 0 if none    *)
(*   hostSig      the host's signature as accepted, nil while there is none *)
(*   trailing     the number of messages read after the section loop        *)
(*   err          what Read returned, "nil" for success                     *)
(*   interaction  the interaction counted for the host by the deferred call *)
(*   cancel       whether the caller has raised the cancel signal           *)
(*   watcher      the goroutine that waits for cancel or for the return     *)
(***************************************************************************)
SegmentSize == 64
RPCMinLen == 4096

\* the most sections a download request has
MaxSections == 2

DownloadSection(root, offset, length) ==
    [MerkleRoot |-> root, Offset |-> offset, Length |-> length]

\* the check of the sizes alone, whatever proof is asked for
SanityCheckSizeOnly(sections, merkleProof) ==
    IF \E i \in 1..Len(sections) :
          sections[i].Offset + sections[i].Length > SectorSize
    THEN "illegal offset and/or length"
    ELSE "nil"

\* "Sanity-check the request": "nil" or the error of the first bad section
RECURSIVE SanityCheck(_, _)
SanityCheck(sections, merkleProof) ==
    IF Len(sections) = 0 THEN "nil"
    ELSE LET sec == Head(sections)
         IN  IF sec.Offset + sec.Length > SectorSize
             THEN "illegal offset and/or length"
             ELSE IF merkleProof /\ (\/ sec.Offset % SegmentSize # 0
                                     \/ sec.Length % SegmentSize # 0)
             THEN "offset and length must be multiples of SegmentSize"
             ELSE SanityCheck(Tail(sections), merkleProof)

RECURSIVE TotalLength(_)
TotalLength(sections) ==
    IF Len(sections) = 0 THEN 0
    ELSE Head(sections).Length + TotalLength(Tail(sections))

\* "calculate estimated bandwidth"
EstBandwidth(req) ==
    LET estHashesPerProof == 2 * Len64(SectorSize \div SegmentSize)
        estProofHashes == IF req.MerkleProof
                          THEN Len(req.Sections) * estHashesPerProof ELSE 0
        est == TotalLength(req.Sections) + estProofHashes * HashSize
    IN  IF est < RPCMinLen THEN RPCMinLen ELSE est

\* "calculate sector accesses"
SectorAccesses(req) ==
    {req.Sections[i].MerkleRoot : i \in 1..Len(req.Sections)}

\* "calculate price", before the margin is added
DownloadPrice(hostInfo, req) ==
    hostInfo.BaseRPCPrice
        + hostInfo.DownloadBandwidthPrice * EstBandwidth(req)
        + hostInfo.SectorAccessPrice * Cardinality(SectorAccesses(req))

\* price.MultFloat64(1 + extraRatio), extraRatio = 0.02
MultExtraRatio(price) == price + (price * 2) \div 100

\* storage.NewDownloadRevision: the next revision, paying cost to the host
NewDownloadRevision(current, cost) == NewRevision(current, cost)

\* storage.VerifyRangeProof(data, proof, start, end, root): the proof shows
\* that data is the segments [start, end) of the sector with this root
VerifyRangeProof(data, proof, start, end, root) ==
    /\ proof = [root |-> root, start |-> start, end |-> end]
    /\ data.root = root
    /\ data.offset = start * SegmentSize
    /\ data.length = (end - start) * SegmentSize

\* a response without data, and without a range proof
NoData == [root |-> NilHash, offset |-> 0, length |-> 0]

NoRangeProof == [root |-> NilHash, start |-> 0, end |-> 0]

\* len(resp.Data)
DataLen(data) == data.length

\* the checks without the range proof
CheckSectionDataNoProof(resp, sec, merkleProof) ==
    IF DataLen(resp.Data) # sec.Length
    THEN "host did not send enough sector data"
    ELSE "nil"

\* the checks of one section's data: "nil" or the error Read returns
CheckSectionData(resp, sec, merkleProof) ==
    IF DataLen(resp.Data) # sec.Length
    THEN "host did not send enough sector data"
    ELSE IF merkleProof
            /\ ~VerifyRangeProof(resp.Data, resp.MerkleProof,
                                 sec.Offset \div SegmentSize,
                                 (sec.Offset + sec.Length) \div SegmentSize,
                                 sec.MerkleRoot)
    THEN "host provided incorrect sector data or Merkle proof"
    ELSE "nil"

\* Read returns err; the deferred call counts the interaction
ReadReturn(r, err) ==
    [r EXCEPT !.pc = "returned", !.err = err,
              !.interaction = IF r.interaction = "none" THEN "none"
                              ELSE IF err # "nil" THEN "failed" ELSE "successful"]

\* "newRevision.Signatures[1] = hostSig" and the return
ReadFinish(r, hostSig) ==
    ReadReturn([r EXCEPT !.hostSig = hostSig,
                         !.newRevision.Signatures[2] = hostSig], "nil")

\* Read up to its first read of the session
ReadSendRequest(r, lastRevision, hostInfo, walletFound, signed, sendOk) ==
    LET sane  == SanityCheck(r.req.Sections, r.req.MerkleProof)
        price == DownloadPrice(hostInfo, r.req)
        newRevision == NewDownloadRevision(lastRevision, MultExtraRatio(price))
        armed == [r EXCEPT !.interaction = "pending", !.newRevision = newRevision]
    IN  IF sane # "nil" THEN ReadReturn(r, sane)
        ELSE IF lastRevision.NewValidProofOutputs[1].Value < price
        THEN ReadReturn(r, "contract has insufficient funds to support download")
        ELSE IF ~walletFound THEN ReadReturn(r, "wallet not found")
        ELSE IF ~signed THEN ReadReturn(r, "sign error")
        ELSE IF ~sendOk THEN ReadReturn(armed, "send error")
        ELSE [armed EXCEPT
                !.pc = IF Len(r.req.Sections) = 0 THEN "readSignature"
                       ELSE "readSection",
                !.next = 1, !.watcher = "waiting",
                !.sent = <<Msg("StorageContractDownloadRequestMsg",
                    [Sections |-> r.req.Sections, MerkleProof |-> r.req.MerkleProof,
                     NewRevisionNumber |-> newRevision.NewRevisionNumber,
                     Signature |-> ClientSignature(newRevision)])>>]

\* one pass of the loop over the sections: the response to section r.next
ReadOnSection(r0, readOk, decoded, resp, writeOk) ==
    LET r   == [r0 EXCEPT !.reads = r0.reads + 1]
        sec == r.req.Sections[r.next]
    IN  IF ~readOk THEN ReadReturn(r, "read error")
        ELSE IF ~decoded THEN ReadReturn(r, "decode error")
        ELSE
        Bind(IF DataLen(resp.Data) > 0
             THEN CheckSectionData(resp, sec, r.req.MerkleProof) ELSE "nil",
             LAMBDA bad :
        IF bad # "nil" THEN ReadReturn([r EXCEPT !.failedAt = r.next], bad)
        ELSE IF DataLen(resp.Data) > 0 /\ ~writeOk THEN ReadReturn(r, "write error")
        ELSE
        Bind(IF DataLen(resp.Data) > 0
             THEN [r EXCEPT !.written = Append(r.written,
                                [section |-> r.next, Data |-> resp.Data,
                                 MerkleProof |-> resp.MerkleProof])]
             ELSE r,
             LAMBDA w :
        IF resp.Signature # NilSignature THEN ReadFinish(w, resp.Signature)
        ELSE IF w.next = Len(w.req.Sections)
        THEN [w EXCEPT !.pc = "readSignature", !.next = w.next + 1]
        ELSE [w EXCEPT !.next = w.next + 1]))

\* the message read when no section response carried a signature
ReadOnSignature(r0, readOk, decoded, resp) ==
    LET r == [r0 EXCEPT !.reads = r0.reads + 1, !.trailing = r0.trailing + 1]
    IN  IF ~readOk THEN ReadReturn(r, "read error")
        ELSE IF ~decoded THEN ReadReturn(r, "decode error")
        ELSE ReadFinish(r, resp.Signature)

(***************************************************************************)
(* The download as a state machine                                          *)
(***************************************************************************)
\* the sections a request may hold: section k asks for sector k
SectionsOf(k) ==
    {DownloadSection(Sha256MerkleTreeRoot(k), offset, length) :
        offset \in {0, SegmentSize \div 2, SectorSize - SegmentSize},
        length \in {SegmentSize, 2 * SegmentSize}}

RECURSIVE SectionLists(_)
SectionLists(n) ==
    IF n = 0 THEN {<<>>}
    ELSE SectionLists(n - 1) \cup
         {Append(l, s) : l \in {x \in SectionLists(n - 1) : Len(x) = n - 1},
                         s \in SectionsOf(n)}

DownloadRequests ==
    {[Sections |-> l, MerkleProof |-> p] :
        l \in SectionLists(MaxSections), p \in BOOLEAN}

\* the host's prices as the session announces them
ReadHostInfo ==
    [BaseRPCPrice |-> 1, DownloadBandwidthPrice |-> 1, SectorAccessPrice |-> 1]

\* the contract's last revision, with what the client still holds
ReadLastRevision(funds) ==
    [InitialRevision(<<>>) EXCEPT
        !.NewValidProofOutputs[1].Value = funds,
        !.NewMissedProofOutputs[1].Value = funds]

ReadFunds == {0, 3 * RPCMinLen}

\* what the client may hold when it asks for req: nothing, plenty, or just
\* the price of the request
ReadFundsFor(req) == ReadFunds \cup {DownloadPrice(ReadHostInfo, req)}

HostDownloadSignature == [signer |-> "host", number |-> 2]

\* the data and the proof of the range a section asks for
GenuineData(sec) ==
    [root |-> sec.MerkleRoot, offset |-> sec.Offset, length |-> sec.Length]

ProofOf(data) ==
    [root |-> data.root, start |-> data.offset \div SegmentSize,
     end |-> (data.offset + data.length) \div SegmentSize]

\* the responses a host may give to a section: nothing, the data asked for,
\* the data with the proof of another range, too little data, or the same
\* range of another sector with that sector's proof; with or without its
\* signature
DownloadResponses(sec) ==
    LET good  == GenuineData(sec)
        short == [good EXCEPT !.length = sec.Length \div 2]
        other == [good EXCEPT !.root = Sha256MerkleTreeRoot(0)]
    IN  {[Data |-> d[1], MerkleProof |-> d[2], Signature |-> s] :
            d \in {<<NoData, NoRangeProof>>, <<good, ProofOf(good)>>,
                   <<good, ProofOf(other)>>, <<short, ProofOf(short)>>,
                   <<other, ProofOf(other)>>},
            s \in {NilSignature, HostDownloadSignature}}

ReadInit ==
    /\ mk = <<>> /\ db = NoSr /\ sectors = <<>> /\ hs = <<>> /\ config = <<>>
    /\ wr = <<>> /\ cc = <<>> /\ lk = <<>>
    /\ \E req \in DownloadRequests :
         rd = [pc |-> "start", req |-> req, newRevision |-> NoRev, sent |-> <<>>,
               reads |-> 0, next |-> 0, written |-> <<>>, failedAt |-> 0,
               hostSig |-> NilSignature, trailing |-> 0, err |-> "nil",
               interaction |-> "none", cancel |-> FALSE, watcher |-> "none"]

\* Read checks the request, prices it, signs the revision and sends it
ReadStart ==
    /\ rd.pc = "start"
    /\ \E funds \in ReadFundsFor(rd.req) :
       \E walletFound, signed, sendOk \in BOOLEAN :
         rd' = ReadSendRequest(rd, ReadLastRevision(funds), ReadHostInfo,
                               walletFound, signed, sendOk)
    /\ UNCHANGED <<mk, db, sectors, hs, config, wr, cc, lk>>

\* the session yields the response to the next section, or fails
ReadSection ==
    /\ rd.pc = "readSection"
    /\ \E readOk, decoded, writeOk \in BOOLEAN :
       \E resp \in DownloadResponses(rd.req.Sections[rd.next]) :
       \E r \in {ReadOnSection(rd, readOk, decoded, resp, writeOk)} :
         rd' = r
    /\ UNCHANGED <<mk, db, sectors, hs, config, wr, cc, lk>>

\* the session yields one more message after the last section
ReadSignature ==
    /\ rd.pc = "readSignature"
    /\ \E readOk, decoded \in BOOLEAN :
       \E sig \in {NilSignature, HostDownloadSignature} :
         rd' = ReadOnSignature(rd, readOk, decoded,
                   [Data |-> NoData, MerkleProof |-> NoRangeProof, Signature |-> sig])
    /\ UNCHANGED <<mk, db, sectors, hs, config, wr, cc, lk>>

\* the caller closes the cancel channel while Read waits for the host
RaiseCancel ==
    /\ rd.pc \in {"readSection", "readSignature"}
    /\ ~rd.cancel
    /\ rd' = [rd EXCEPT !.cancel = TRUE]
    /\ UNCHANGED <<mk, db, sectors, hs, config, wr, cc, lk>>

\* the goroutine wakes on cancel or on doneChan, and ends: it sends nothing
CancelWatcher ==
    /\ rd.watcher = "waiting"
    /\ rd.cancel \/ rd.pc = "returned"
    /\ rd' = [rd EXCEPT !.watcher = "exited"]
    /\ UNCHANGED <<mk, db, sectors, hs, config, wr, cc, lk>>

ReadNext == ReadStart \/ ReadSection \/ ReadSignature \/ RaiseCancel \/ CancelWatcher

SpecRead == ReadInit /\ [][ReadNext]_vars

(***************************************************************************)
(* The host's contract locks (storageobligationslock.go) and the read of a *)
(* storage responsibility (negotiationproto.go).  h.lock is a              *)
(* readers-writer lock over the whole host; lockedStorageObligations maps  *)
(* a contract to its TryMutex, created on first use.  A record lk holds    *)
(*   writer     the goroutine that holds h.lock for writing, 0 for none    *)
(*   readers    the goroutines that hold h.lock for reading                 *)
(*   registry   per contract: "absent", "free" or "held"                    *)
(*   procs      per goroutine: pc, the call it is in (op), its contract     *)
(*              (soid), the contracts it has locked (holds) and what its    *)
(*              last checkAndTryLockStorageObligation returned (result)     *)
(***************************************************************************)
\* the goroutines that negotiate at the same time
NumLockProcs == 3

LockProcs == 1..NumLockProcs

Contracts == {"A", "B"}

IdleProc(holds, result) ==
    [pc |-> "idle", op |-> "none", soid |-> "none", holds |-> holds,
     result |-> result]

\* h.lock.Lock() can return
CanLock(l) == l.writer = 0 /\ l.readers = {}

\* h.lock.RLock() can return
CanRLock(l) == l.writer = 0

\* "tl, exists := h.lockedStorageObligations[soid]; if !exists { ... }"
Registered(registry, soid) ==
    IF registry[soid] = "absent" THEN [registry EXCEPT ![soid] = "free"]
    ELSE registry

\* checkAndTryLockStorageObligation from h.lock.Lock() to TryLockTimed: a free
\* TryMutex is taken and the call returns, unlocking h.lock; a held one is
\* waited for, with h.lock still held
TryLockEnter(l, p) ==
    LET me  == l.procs[p]
        reg == Registered(l.registry, me.soid)
    IN  IF reg[me.soid] = "free"
        THEN [l EXCEPT !.writer = 0,
                       !.registry = [reg EXCEPT ![me.soid] = "held"],
                       !.procs[p] = IdleProc(me.holds \cup {me.soid}, "nil")]
        ELSE [l EXCEPT !.writer = p, !.registry = reg,
                       !.procs[p].pc = "waiting"]

\* the end of TryLockTimed for a goroutine that waits: the TryMutex was
\* released in time, or the timeout ran out; the deferred h.lock.Unlock()
TryLockLeave(l, p) ==
    LET me == l.procs[p]
    IN  IF l.registry[me.soid] = "free"
        THEN [l EXCEPT !.writer = 0,
                       !.registry[me.soid] = "held",
                       !.procs[p] = IdleProc(me.holds \cup {me.soid}, "nil")]
        ELSE [l EXCEPT !.writer = 0,
                       !.procs[p] = IdleProc(me.holds, "errObligationLocked")]

\* checkAndLockStorageObligation from h.lock.Lock() to tl.Lock(): a free
\* TryMutex is taken and the call returns, unlocking h.lock; a held one is
\* waited for without a limit, with h.lock still held
LockEnter(l, p) ==
    LET me  == l.procs[p]
        reg == Registered(l.registry, me.soid)
    IN  IF reg[me.soid] = "free"
        THEN [l EXCEPT !.writer = 0,
                       !.registry = [reg EXCEPT ![me.soid] = "held"],
                       !.procs[p] = IdleProc(me.holds \cup {me.soid}, me.result)]
        ELSE [l EXCEPT !.writer = p, !.registry = reg,
                       !.procs[p].pc = "blocked"]

\* tl.Lock() returns to a goroutine that had to wait, once the TryMutex is
\* free; the deferred h.lock.Unlock()
LockLeave(l, p) ==
    LET me == l.procs[p]
    IN  [l EXCEPT !.writer = 0,
                  !.registry[me.soid] = "held",
                  !.procs[p] = IdleProc(me.holds \cup {me.soid}, me.result)]

\* checkAndUnlockStorageObligation under h.lock
UnlockObligation(l, p) ==
    LET me == l.procs[p]
    IN  [l EXCEPT !.writer = 0,
                  !.registry[me.soid] = IF l.registry[me.soid] = "absent"
                                        THEN "absent" ELSE "free",
                  !.procs[p] = IdleProc(me.holds \ {me.soid}, me.result)]

LockInit ==
    /\ mk = <<>> /\ db = NoSr /\ sectors = <<>> /\ hs = <<>> /\ config = <<>>
    /\ wr = <<>> /\ cc = <<>> /\ rd = <<>>
    /\ lk = [writer |-> 0, readers |-> {},
             registry |-> [c \in Contracts |-> "absent"],
             procs |-> [p \in LockProcs |-> IdleProc({}, "none")]]

\* a negotiation calls checkAndTryLockStorageObligation or
\* checkAndLockStorageObligation (for a contract it has not locked),
\* checkAndUnlockStorageObligation (for a contract it has locked) or
\* GetStorageResponsibility
LockCall(p) ==
    /\ lk.procs[p].pc = "idle"
    /\ \E soid \in Contracts : \E op \in {"tryLock", "lock", "unlock", "get"} :
         /\ op \in {"tryLock", "lock"} => soid \notin lk.procs[p].holds
         /\ op = "unlock" => soid \in lk.procs[p].holds
         /\ lk' = [lk EXCEPT !.procs[p].pc = "calling", !.procs[p].op = op,
                             !.procs[p].soid = soid]
    /\ UNCHANGED <<mk, db, sectors, hs, config, wr, cc, rd>>

\* h.lock.Lock() returns in checkAndTryLockStorageObligation
TryLockStart(p) ==
    /\ lk.procs[p].pc = "calling" /\ lk.procs[p].op = "tryLock"
    /\ CanLock(lk)
    /\ lk' = TryLockEnter(lk, p)
    /\ UNCHANGED <<mk, db, sectors, hs, config, wr, cc, rd>>

\* TryLockTimed returns to a goroutine that had to wait
TryLockEnd(p) ==
    /\ lk.procs[p].pc = "waiting"
    /\ lk' = TryLockLeave(lk, p)
    /\ UNCHANGED <<mk, db, sectors, hs, config, wr, cc, rd>>

\* checkAndLockStorageObligation: h.lock.Lock() returns, or tl.Lock() returns
\* to a goroutine that had to wait
LockObligation(p) ==
    /\ IF lk.procs[p].pc = "blocked"
       THEN lk.registry[lk.procs[p].soid] = "free"
       ELSE lk.procs[p].pc = "calling" /\ lk.procs[p].op = "lock" /\ CanLock(lk)
    /\ lk' = IF lk.procs[p].pc = "blocked" THEN LockLeave(lk, p)
             ELSE LockEnter(lk, p)
    /\ UNCHANGED <<mk, db, sectors, hs, config, wr, cc, rd>>

\* checkAndUnlockStorageObligation runs under h.lock
Unlock(p) ==
    /\ lk.procs[p].pc = "calling" /\ lk.procs[p].op = "unlock"
    /\ CanLock(lk)
    /\ lk' = UnlockObligation(lk, p)
    /\ UNCHANGED <<mk, db, sectors, hs, config, wr, cc, rd>>

\* h.lock.RLock() returns in GetStorageResponsibility
GetStart(p) ==
    /\ lk.procs[p].pc = "calling" /\ lk.procs[p].op = "get"
    /\ CanRLock(lk)
    /\ lk' = [lk EXCEPT !.readers = lk.readers \cup {p},
                        !.procs[p].pc = "reading"]
    /\ UNCHANGED <<mk, db, sectors, hs, config, wr, cc, rd>>

\* GetStorageResponsibility returns: the deferred h.lock.RUnlock()
GetEnd(p) ==
    /\ lk.procs[p].pc = "reading"
    /\ lk' = [lk EXCEPT !.readers = lk.readers \ {p},
                        !.procs[p] = IdleProc(lk.procs[p].holds, lk.procs[p].result)]
    /\ UNCHANGED <<mk, db, sectors, hs, config, wr, cc, rd>>

LockNext ==
    \E p \in LockProcs :
        \/ LockCall(p) \/ TryLockStart(p) \/ TryLockEnd(p) \/ LockObligation(p)
        \/ Unlock(p) \/ GetStart(p) \/ GetEnd(p)

SpecLock == LockInit /\ [][LockNext]_vars

(***************************************************************************)
(* The loop of consumeUntil on its own: from any left below any end, the   *)
(* index advances by adjacentSubtreeSize until it equals end.  size is the *)
(* value the last call returned.                                            *)
(***************************************************************************)
CoverInit ==
    /\ \E left \in 0..MaxUint64 : \E right \in (left + 1)..MaxUint64 :
         mk = [pc |-> "walk", left |-> left, end |-> right,
               leafIndex |-> left, size |-> 0]
    /\ db = NoSr /\ sectors = <<>> /\ hs = <<>> /\ config = <<>> /\ wr = <<>>
    /\ cc = <<>> /\ rd = <<>> /\ lk = <<>>

\* one turn of the loop: leafIndex += uint64(subtreeSize)
CoverStep ==
    /\ mk.pc = "walk" /\ mk.leafIndex # mk.end
    /\ LET subtreeSize == adjacentSubtreeSize(mk.leafIndex, mk.end)
       IN  mk' = [mk EXCEPT !.leafIndex = U64(mk.leafIndex + subtreeSize),
                            !.size = subtreeSize]
    /\ UNCHANGED <<db, sectors, hs, config, wr, cc, rd, lk>>

\* the loop ends
CoverDone ==
    /\ mk.pc = "walk" /\ mk.leafIndex = mk.end
    /\ mk' = [mk EXCEPT !.pc = "done"]
    /\ UNCHANGED <<db, sectors, hs, config, wr, cc, rd, lk>>

CoverNext == CoverStep \/ CoverDone

SpecCover == CoverInit /\ [][CoverNext]_vars

(***************************************************************************)
(* A leaf source under calls: a CachedSubtreeRoot over leaf roots or a     *)
(* SubtreeRootReader over bytes receives GetSubtreeRoot(n) and Skip(n) in  *)
(* any order.  last records the latest call: the source before it, its     *)
(* argument and what it returned.                                           *)
(***************************************************************************)
MaxBytes == 5

MaxLeafSize == 2

MaxCalls == 2

ByteSeqs == UNION {[1..n -> {1, 2}] : n \in 0..MaxBytes}

Sources ==
    {[kind |-> "cached", leafRoots |-> l, r |-> <<>>, leafSize |-> 0]
       : l \in LeafSeqs}
    \cup {[kind |-> "reader", leafRoots |-> <<>>, r |-> b, leafSize |-> z]
            : b \in ByteSeqs, z \in 1..MaxLeafSize}

\* the arguments a call is made with
Counts == (0 - 1)..(MaxLeaves + 1)

\* the leaf hashes a source still holds: a last leaf of a reader may be short
RECURSIVE LeavesOfBytes(_, _)
LeavesOfBytes(r, leafSize) ==
    IF Len(r) = 0 THEN <<>>
    ELSE <<leafTotal(SubSeq(r, 1, Min(leafSize, Len(r))))>>
         \o LeavesOfBytes(SubSeq(r, Min(leafSize, Len(r)) + 1, Len(r)), leafSize)

LeavesOf(s) ==
    IF s.kind = "cached" THEN s.leafRoots ELSE LeavesOfBytes(s.r, s.leafSize)

SourceInit ==
    /\ \E s \in Sources :
         mk = [src |-> s, calls |-> 0,
               last |-> [op |-> "none", n |-> 0, before |-> s,
                         root |-> NilHash, err |-> "nil"]]
    /\ db = NoSr /\ sectors = <<>> /\ hs = <<>> /\ config = <<>> /\ wr = <<>>
    /\ cc = <<>> /\ rd = <<>> /\ lk = <<>>

SourceGetSubtreeRoot ==
    /\ mk.calls < MaxCalls
    /\ \E n \in Counts :
         LET s   == mk.src
             got == IF s.kind = "cached"
                    THEN CachedGetSubtreeRoot(s.leafRoots, n)
                    ELSE ReaderGetSubtreeRoot(s.r, s.leafSize, n)
         IN  mk' = [src   |-> IF s.kind = "cached"
                              THEN [s EXCEPT !.leafRoots = got.leafRoots]
                              ELSE [s EXCEPT !.r = got.r],
                    calls |-> mk.calls + 1,
                    last  |-> [op |-> "GetSubtreeRoot", n |-> n, before |-> s,
                               root |-> got.root, err |-> got.err]]
    /\ UNCHANGED <<db, sectors, hs, config, wr, cc, rd, lk>>

SourceSkip ==
    /\ mk.calls < MaxCalls
    /\ \E n \in Counts :
         LET s   == mk.src
             got == IF s.kind = "cached"
                    THEN CachedSkip(s.leafRoots, n)
                    ELSE ReaderSkip(s.r, s.leafSize, n)
         IN  mk' = [src   |-> IF s.kind = "cached"
                              THEN [s EXCEPT !.leafRoots = got.leafRoots]
                              ELSE [s EXCEPT !.r = got.r],
                    calls |-> mk.calls + 1,
                    last  |-> [op |-> "Skip", n |-> n, before |-> s,
                               root |-> NilHash, err |-> got.err]]
    /\ UNCHANGED <<db, sectors, hs, config, wr, cc, rd, lk>>

SourceNext == SourceGetSubtreeRoot \/ SourceSkip

SpecSource == SourceInit /\ [][SourceNext]_vars

(***************************************************************************)
(* FinalizeStorageResponsibility and RollBackCreateStorageResponsibility   *)
(* (negotiationproto.go), called by goroutines at the same time.  The lock *)
(* functions they call are those of storageobligationslock.go under the    *)
(* names used in negotiationproto.go.  A record lk holds                    *)
(*   writer     the goroutine that holds h.lock, 0 for none                 *)
(*   registry   per contract: "absent", "free" or "held"                    *)
(*   owner      per contract: the goroutine that locked its TryMutex, or 0  *)
(*   stored     the contracts whose responsibility is in the database       *)
(*   procs      per goroutine: pc, the function it runs (fn), its contract  *)
(*              (soid), what it returned (result) and what it has done in   *)
(*              this call (did)                                             *)
(***************************************************************************)
\* the goroutines that call the two functions at the same time
NumFinalizeProcs == 2

FinalizeProcs == 1..NumFinalizeProcs

FinalizeProc ==
    [pc |-> "idle", fn |-> "none", soid |-> "none", result |-> "none", did |-> {}]

\* checkAndTryLockStorageResponsibility from h.lock.Lock() to TryLockTimed
checkAndTryLockStorageResponsibility(l, p) ==
    LET me  == l.procs[p]
        reg == Registered(l.registry, me.soid)
    IN  IF reg[me.soid] = "free"
        THEN [l EXCEPT !.registry = [reg EXCEPT ![me.soid] = "held"],
                       !.owner[me.soid] = p,
                       !.procs[p].pc = "locked"]
        ELSE [l EXCEPT !.writer = p, !.registry = reg,
                       !.procs[p].pc = "waiting"]

\* TryLockTimed returns to a goroutine that had to wait; with the lock error
\* the function returns at once
TryLockTimedReturns(l, p) ==
    LET me == l.procs[p]
    IN  IF l.registry[me.soid] = "free"
        THEN [l EXCEPT !.writer = 0,
                       !.registry[me.soid] = "held",
                       !.owner[me.soid] = p,
                       !.procs[p].pc = "locked"]
        ELSE [l EXCEPT !.writer = 0,
                       !.procs[p].pc = "returned",
                       !.procs[p].result = "errObligationLocked"]

\* the deferred call that forgets to unlock
checkAndUnlockStorageResponsibilityNot(l, p) ==
    [l EXCEPT !.procs[p].pc = "returned"]

\* the deferred checkAndUnlockStorageResponsibility: no entry, nothing to do;
\* an entry is unlocked, whoever locked it; unlocking a free TryMutex panics
checkAndUnlockStorageResponsibility(l, p) ==
    LET me == l.procs[p]
    IN  IF l.registry[me.soid] = "absent"
        THEN [l EXCEPT !.procs[p].pc = "returned"]
        ELSE IF l.registry[me.soid] = "held"
        THEN [l EXCEPT !.registry[me.soid] = "free",
                       !.owner[me.soid] = 0,
                       !.procs[p].pc = "returned",
                       !.procs[p].did = me.did \cup {"unlocked"}]
        ELSE [l EXCEPT !.procs[p].pc = "panicked"]

\* deleteLockedStorageResponsibility: the entry leaves the registry
deleteLockedStorageResponsibility(l, p) ==
    LET me == l.procs[p]
    IN  [l EXCEPT !.registry[me.soid] = "absent",
                  !.owner[me.soid] = 0,
                  !.procs[p].pc = "unlock",
                  !.procs[p].did = me.did \cup {"removed"}]

\* FinalizeStorageResponsibility between the lock and the deferred unlock
FinalizeStorageResponsibility(l, p, insertOk) ==
    LET me == l.procs[p]
    IN  IF insertOk
        THEN [l EXCEPT !.stored = l.stored \cup {me.soid},
                       !.procs[p].pc = "unlock",
                       !.procs[p].result = "nil",
                       !.procs[p].did = me.did \cup {"insert"}]
        ELSE [l EXCEPT !.procs[p].pc = "deleteLocked",
                       !.procs[p].result = "insert error",
                       !.procs[p].did = me.did \cup {"insert"}]

\* RollBackCreateStorageResponsibility between the lock and the deferred unlock
RollBackCreateStorageResponsibility(l, p, deleteOk) ==
    LET me == l.procs[p]
    IN  IF deleteOk
        THEN [l EXCEPT !.stored = l.stored \ {me.soid},
                       !.procs[p].pc = "deleteLocked",
                       !.procs[p].result = "nil",
                       !.procs[p].did = me.did \cup {"delete"}]
        ELSE [l EXCEPT !.procs[p].pc = "unlock",
                       !.procs[p].result = "delete error",
                       !.procs[p].did = me.did \cup {"delete"}]

FinalizeInit ==
    /\ mk = <<>> /\ db = NoSr /\ sectors = <<>> /\ hs = <<>> /\ config = <<>>
    /\ wr = <<>> /\ cc = <<>> /\ rd = <<>>
    /\ \E stored \in SUBSET Contracts :
         lk = [writer |-> 0,
               registry |-> [c \in Contracts |-> "absent"],
               owner |-> [c \in Contracts |-> 0],
               stored |-> stored,
               procs |-> [p \in FinalizeProcs |-> FinalizeProc]]

\* a negotiation calls one of the two functions
FinalizeCall(p) ==
    /\ lk.procs[p].pc \in {"idle", "returned"}
    /\ \E soid \in Contracts :
         \E fn \in {"FinalizeStorageResponsibility",
                    "RollBackCreateStorageResponsibility"} :
           lk' = [lk EXCEPT !.procs[p] = [pc |-> "lock", fn |-> fn, soid |-> soid,
                                          result |-> "none", did |-> {}]]
    /\ UNCHANGED <<mk, db, sectors, hs, config, wr, cc, rd>>

\* h.lock.Lock() returns in checkAndTryLockStorageResponsibility
FinalizeTryLock(p) ==
    /\ lk.procs[p].pc = "lock" /\ lk.writer = 0
    /\ lk' = checkAndTryLockStorageResponsibility(lk, p)
    /\ UNCHANGED <<mk, db, sectors, hs, config, wr, cc, rd>>

\* TryLockTimed returns to a goroutine that had to wait
FinalizeTryLockEnd(p) ==
    /\ lk.procs[p].pc = "waiting"
    /\ lk' = TryLockTimedReturns(lk, p)
    /\ UNCHANGED <<mk, db, sectors, hs, config, wr, cc, rd>>

\* the insert or the delete, which may fail
FinalizeWork(p) ==
    /\ lk.procs[p].pc = "locked"
    /\ \E ok \in BOOLEAN :
         lk' = IF lk.procs[p].fn = "FinalizeStorageResponsibility"
               THEN FinalizeStorageResponsibility(lk, p, ok)
               ELSE RollBackCreateStorageResponsibility(lk, p, ok)
    /\ UNCHANGED <<mk, db, sectors, hs, config, wr, cc, rd>>

\* deleteLockedStorageResponsibility runs under h.lock
FinalizeDeleteLocked(p) ==
    /\ lk.procs[p].pc = "deleteLocked" /\ lk.writer = 0
    /\ lk' = deleteLockedStorageResponsibility(lk, p)
    /\ UNCHANGED <<mk, db, sectors, hs, config, wr, cc, rd>>

\* the deferred checkAndUnlockStorageResponsibility runs under h.lock
FinalizeUnlock(p) ==
    /\ lk.procs[p].pc = "unlock" /\ lk.writer = 0
    /\ lk' = checkAndUnlockStorageResponsibility(lk, p)
    /\ UNCHANGED <<mk, db, sectors, hs, config, wr, cc, rd>>

FinalizeNext ==
    \E p \in FinalizeProcs :
        \/ FinalizeCall(p) \/ FinalizeTryLock(p) \/ FinalizeTryLockEnd(p)
        \/ FinalizeWork(p) \/ FinalizeDeleteLocked(p) \/ FinalizeUnlock(p)

SpecFinalize == FinalizeInit /\ [][FinalizeNext]_vars

(***************************************************************************)
(* getLimitStorageProof and checkLimitStorageProof one turn of a loop at a *)
(* time, over a CachedSubtreeRoot and a LeafRootCached.  A record mk holds *)
(*   fn         "get" or "check"                                            *)
(*   pc         "start", "consume" (in consumeUntil), "skip" (at Skip, or  *)
(*              in the loop over the leaves of a limit), "done", "panicked" *)
(*   phase      "walk" while limits remain, "drain" in the final           *)
(*              consumeUntil(math.MaxUint64)                                *)
(*   limits     the limits not yet walked; end, the target of consumeUntil *)
(*   leafIndex, leafRoots, proof, leaves, tree: the variables of the code;  *)
(*              the proof built by "get" is not kept                        *)
(*   i          the counter of the loop over the leaves of a limit          *)
(*   err        what the call returned; sawEOF, that the drain met io.EOF   *)
(***************************************************************************)
\* the ends a limit may have: small ones, and ones near the top of uint64
WalkEnds ==
    0..(MaxLeaves + 1) \cup {Pow2(UintBits - 1), MaxUint64 - 1, MaxUint64}

WalkLimitLists ==
    {limits \in UNION {[1..k -> {Limit(l, r) : l \in WalkEnds, r \in WalkEnds}]
                       : k \in 0..MaxRawLimits} : checkLimitList(limits)}

\* n leaf hashes, all alike
SameLeaves(n) == [j \in 1..n |-> <<1>>]

\* "if err == io.EOF { err = nil }" after the final consumeUntil
DrainOutcomeKept(err) == err

DrainOutcome(err) == IF err = "EOF" THEN "nil" ELSE err

WalkInit ==
    /\ \E limits \in WalkLimitLists : \E n \in 0..MaxLeaves :
         \/ mk = [fn |-> "get", pc |-> "start", phase |-> "walk",
                  limits |-> limits, end |-> 0, leafIndex |-> 0,
                  leafRoots |-> SameLeaves(n), proof |-> <<>>, leaves |-> <<>>,
                  tree |-> NewTree, i |-> 0, err |-> "nil", sawEOF |-> FALSE]
         \/ \E m \in 0..MaxLeaves :
              mk = [fn |-> "check", pc |-> "start", phase |-> "walk",
                    limits |-> limits, end |-> 0, leafIndex |-> 0,
                    leafRoots |-> <<>>, proof |-> SameLeaves(m),
                    leaves |-> SameLeaves(n),
                    tree |-> NewTree, i |-> 0, err |-> "nil", sawEOF |-> FALSE]
    /\ db = NoSr /\ sectors = <<>> /\ hs = <<>> /\ config = <<>> /\ wr = <<>>
    /\ cc = <<>> /\ rd = <<>> /\ lk = <<>>

WalkDone(w, err) == [w EXCEPT !.pc = "done", !.err = err]

\* the tests before the walk; then consumeUntil(r.Left) for the first limit
WalkStart ==
    /\ mk.pc = "start"
    /\ mk' = IF Len(mk.limits) = 0 THEN WalkDone(mk, "nil")
             ELSE IF ~checkLimitList(mk.limits) THEN WalkDone(mk, "invalid")
             ELSE [mk EXCEPT !.pc = "consume", !.end = mk.limits[1].Left]
    /\ UNCHANGED <<db, sectors, hs, config, wr, cc, rd, lk>>

\* consumeUntil has reached its end: on to the limit, or the call returns
WalkConsumed(w) ==
    IF w.phase = "walk"
    THEN [w EXCEPT !.pc = "skip", !.i = w.limits[1].Left]
    ELSE WalkDone(w, "nil")

\* one test of the loop condition of consumeUntil in getLimitStorageProof,
\* and one turn when it holds
GetConsumeStep ==
    /\ mk.fn = "get" /\ mk.pc = "consume"
    /\ mk' =
         IF mk.leafIndex = mk.end THEN WalkConsumed(mk)
         ELSE LET subtreeSize == adjacentSubtreeSize(mk.leafIndex, mk.end)
                  got         == CachedGetSubtreeRoot(mk.leafRoots, subtreeSize)
              IN  IF got.err # "nil"
                  THEN IF mk.phase = "drain"
                       THEN [WalkDone(mk, DrainOutcome(got.err))
                               EXCEPT !.sawEOF = (got.err = "EOF")]
                       ELSE WalkDone(mk, got.err)
                  ELSE [mk EXCEPT !.leafRoots = got.leafRoots,
                                  !.leafIndex = U64(mk.leafIndex + subtreeSize)]
    /\ UNCHANGED <<db, sectors, hs, config, wr, cc, rd, lk>>

\* a limit has been passed: the next one, or the final drain
WalkNextLimit(w) ==
    LET r    == w.limits[1]
        rest == Tail(w.limits)
        w1   == [w EXCEPT !.limits = rest, !.pc = "consume",
                          !.leafIndex = U64(w.leafIndex + (r.Right - r.Left))]
    IN  IF Len(rest) > 0
        THEN [w1 EXCEPT !.end = rest[1].Left]
        ELSE [w1 EXCEPT !.phase = "drain", !.end = MaxUint64]

\* sr.Skip(int(r.Right - r.Left)) and leafIndex += r.Right - r.Left
GetSkipStep ==
    /\ mk.fn = "get" /\ mk.pc = "skip"
    /\ LET r  == mk.limits[1]
           sk == CachedSkip(mk.leafRoots, ToInt(r.Right - r.Left))
       IN  mk' = IF sk.err = "panic" THEN [mk EXCEPT !.pc = "panicked"]
                 ELSE IF sk.err # "nil" THEN WalkDone(mk, sk.err)
                 ELSE WalkNextLimit([mk EXCEPT !.leafRoots = sk.leafRoots])
    /\ UNCHANGED <<db, sectors, hs, config, wr, cc, rd, lk>>

\* one test of the loop condition of consumeUntil in checkLimitStorageProof,
\* and one turn when it holds
CheckConsumeStep ==
    /\ mk.fn = "check" /\ mk.pc = "consume"
    /\ mk' =
         IF ~(mk.leafIndex # mk.end /\ Len(mk.proof) > 0) THEN WalkConsumed(mk)
         ELSE LET subtreeSize == adjacentSubtreeSize(mk.leafIndex, mk.end)
                  height      == TrailingZeros64(U64(subtreeSize))
                  pushed      == PushSubTree(mk.tree, height, mk.proof[1])
              IN  IF pushed.err THEN WalkDone(mk, "push")
                  ELSE [mk EXCEPT !.tree = pushed.tree,
                                  !.proof = Tail(mk.proof),
                                  !.leafIndex = U64(mk.leafIndex + subtreeSize)]
    /\ UNCHANGED <<db, sectors, hs, config, wr, cc, rd, lk>>

\* one test of "i < r.Right" in the loop over the leaves of a limit, and one
\* turn when it holds: GetLeafRoot and PushSubTree(0, leafHash)
CheckLeafStep ==
    /\ mk.fn = "check" /\ mk.pc = "skip"
    /\ mk' =
         IF ~(mk.i < mk.limits[1].Right) THEN WalkNextLimit(mk)
         ELSE IF Len(mk.leaves) = 0 THEN WalkDone(mk, "EOF")
         ELSE LET pushed == PushSubTree(mk.tree, 0, mk.leaves[1])
              IN  IF pushed.err THEN [mk EXCEPT !.pc = "panicked"]
                  ELSE [mk EXCEPT !.tree = pushed.tree,
                                  !.leaves = Tail(mk.leaves),
                                  !.i = mk.i + 1]
    /\ UNCHANGED <<db, sectors, hs, config, wr, cc, rd, lk>>

WalkNext ==
    WalkStart \/ GetConsumeStep \/ GetSkipStep \/ CheckConsumeStep \/ CheckLeafStep

SpecWalk == WalkInit /\ [][WalkNext]_vars

(***************************************************************************)
(* EVM.ApplyStorageContractTransaction and EVM.ApplyDposTransaction.       *)
(*                                                                         *)
(* Under SpecApply the variable db holds the EVM's world:                  *)
(*   state   evm.StateDB: the accounts (exist, nonce, balance, storage)    *)
(*           and its revisions (validRevisions, nextRevisionId)            *)
(*   dpos    the DposContext handed to ApplyDposTransaction                *)
(*   calls   the transactions applied so far                               *)
(*   last    the last call: its function, txType and returned err, and     *)
(*           whether its transaction had changed state or context before   *)
(*           it returned (dirty)                                           *)
(* StateDB, DposContext and the checks and dpos.Process* functions are not *)
(* part of the source at hand.  StateDB.Snapshot records the accounts      *)
(* under a fresh revision id and RevertToSnapshot restores them and drops  *)
(* that revision and the later ones (it panics on an unknown id);          *)
(* DposContext.Snapshot is a copy.  A check fails or passes as its input   *)
(* says; a Process* function fails before or after it has changed          *)
(* anything, or succeeds.  Gas is counted in units of params.SstoreSetGas. *)
(***************************************************************************)
\* the transactions applied in one run
MaxApplyCalls == 3
\* the most an account holds at the start
MaxBalance == 2
\* the most gas a DPoS transaction brings, in units of params.SstoreSetGas
MaxGas == 4

ContractIds == 1..2
WindowEnds == 1..2

ContractAddr(id) == <<"contract", id>>
StatusAddr(windowEnd) == <<"expired_storage_contract_", windowEnd>>
ClientAddr == <<"client", 0>>
HostAddr == <<"host", 0>>
\* common.Address{}
ZeroAddr == <<"zero", 0>>
Callers == {ClientAddr, HostAddr}

StateAddrs ==
    {ContractAddr(id) : id \in ContractIds}
    \cup {StatusAddr(w) : w \in WindowEnds} \cup Callers \cup {ZeroAddr}

KeyClientAddress == <<"KeyClientAddress", 0>>
KeyHostAddress == <<"KeyHostAddress", 0>>
KeyClientCollateral == <<"KeyClientCollateral", 0>>
KeyHostCollateral == <<"KeyHostCollateral", 0>>
KeyFileSize == <<"KeyFileSize", 0>>
KeyUnlockHash == <<"KeyUnlockHash", 0>>
KeyFileMerkleRoot == <<"KeyFileMerkleRoot", 0>>
KeyRevisionNumber == <<"KeyRevisionNumber", 0>>
KeyWindowStart == <<"KeyWindowStart", 0>>
KeyWindowEnd == <<"KeyWindowEnd", 0>>
KeyClientValidProofOutput == <<"KeyClientValidProofOutput", 0>>
KeyHostValidProofOutput == <<"KeyHostValidProofOutput", 0>>
KeyClientMissedProofOutput == <<"KeyClientMissedProofOutput", 0>>
KeyHostMissedProofOutput == <<"KeyHostMissedProofOutput", 0>>
KeyCandidateDeposit == <<"KeyCandidateDeposit", 0>>
KeyVoteDeposit == <<"KeyVoteDeposit", 0>>
\* the key of a contract's status in its status account is the contract id
KeyOfContract(id) == <<"scID", id>>

\* the keys of a contract account that CreateContractTx writes
ContractKeys ==
    {KeyClientAddress, KeyHostAddress, KeyClientCollateral, KeyHostCollateral,
     KeyFileSize, KeyUnlockHash, KeyFileMerkleRoot, KeyRevisionNumber,
     KeyWindowStart, KeyWindowEnd, KeyClientValidProofOutput,
     KeyHostValidProofOutput, KeyClientMissedProofOutput,
     KeyHostMissedProofOutput}

StateKeys ==
    ContractKeys \cup {KeyCandidateDeposit, KeyVoteDeposit}
    \cup {KeyOfContract(id) : id \in ContractIds}

\* common.BytesToHash(addr.Bytes()): an address as a stored value
HashOfAddress(addr) == IF addr = ClientAddr THEN 1 ELSE IF addr = HostAddr THEN 2 ELSE 0

\* common.BytesToAddress(hash.Bytes()): the address a stored value names
AddressOfHash(hash) == IF hash = 1 THEN ClientAddr ELSE IF hash = 2 THEN HostAddr
                       ELSE ZeroAddr

HostAnnounceTransaction == "HostAnnounce"
ContractCreateTransaction == "ContractCreate"
CommitRevisionTransaction == "CommitRevision"
StorageProofTransaction == "StorageProof"
ApplyCandidate == "ApplyCandidate"
CancelCandidate == "CancelCandidate"
Vote == "Vote"
CancelVote == "CancelVote"
UnknownTxType == "Unknown"

StorageTxTypes ==
    {HostAnnounceTransaction, ContractCreateTransaction,
     CommitRevisionTransaction, StorageProofTransaction, UnknownTxType}

DposTxTypes == {ApplyCandidate, CancelCandidate, Vote, CancelVote, UnknownTxType}

\* the accounts of a state database, without its revisions
Content(s) ==
    [exist |-> s.exist, nonce |-> s.nonce, balance |-> s.balance,
     storage |-> s.storage]

EmptyStorage == [k \in StateKeys |-> 0]

Exist(s, addr) == addr \in s.exist

CreateAccount(s, addr) ==
    [s EXCEPT !.exist = @ \cup {addr}, !.nonce[addr] = 0,
              !.storage[addr] = EmptyStorage]

SetNonce(s, addr, nonce) ==
    [s EXCEPT !.exist = @ \cup {addr}, !.nonce[addr] = nonce]

AddBalance(s, addr, amount) ==
    [s EXCEPT !.exist = @ \cup {addr}, !.balance[addr] = @ + amount]

SubBalance(s, addr, amount) ==
    [s EXCEPT !.exist = @ \cup {addr}, !.balance[addr] = @ - amount]

SetState(s, addr, key, value) ==
    [s EXCEPT !.exist = @ \cup {addr}, !.storage[addr][key] = value]

GetState(s, addr, key) == s.storage[addr][key]

\* StateDB.Snapshot: the id of the new revision and the database holding it
Snapshot(s) ==
    [id |-> s.nextRevisionId,
     s |-> [s EXCEPT !.nextRevisionId = @ + 1,
                     !.validRevisions =
                         Append(@, [id |-> s.nextRevisionId,
                                    saved |-> Content(s)])]]

\* StateDB.RevertToSnapshot
RevertToSnapshot(s, revid) ==
    LET found == {i \in 1..Len(s.validRevisions) : s.validRevisions[i].id = revid}
    IN  IF found = {} THEN [s EXCEPT !.panicked = TRUE]
        ELSE LET idx == CHOOSE i \in found : TRUE
                 saved == s.validRevisions[idx].saved
             IN  [s EXCEPT !.exist = saved.exist, !.nonce = saved.nonce,
                           !.balance = saved.balance,
                           !.storage = saved.storage,
                           !.validRevisions = SubSeq(@, 1, idx - 1)]

\* the valid-proof outputs <<client, host>> a revision may carry
RevisionOutputs == {<<2, 0>>, <<1, 1>>, <<0, 1>>}

\* a storage transaction whose data decodes and passes its check
PlainStorageInput ==
    [decodeOk |-> TRUE, checkOk |-> TRUE, id |-> 1, windowEnd |-> 1,
     clientCollateral |-> 1, hostCollateral |-> 1, newRevision |-> 1,
     newValidProofOutputs |-> <<0, 0>>]

\* what a storage transaction carries: whether its data decodes (data that
\* does not decode carries nothing else), whether the check of it passes, and
\* the fields its type reads: the contract, its window end and the
\* collaterals; the new revision number and outputs
StorageInputs(txType) ==
    LET base == {[PlainStorageInput EXCEPT !.decodeOk = FALSE]}
                \cup {[PlainStorageInput EXCEPT !.checkOk = c] : c \in BOOLEAN}
        withId == {[in EXCEPT !.id = id] : in \in base, id \in ContractIds}
    IN  CASE txType = HostAnnounceTransaction -> base
          [] txType = ContractCreateTransaction ->
               {[in EXCEPT !.windowEnd = w, !.clientCollateral = c,
                           !.hostCollateral = h]
                  : in \in {i \in withId : i.decodeOk},
                    w \in WindowEnds, c \in 1..2, h \in 0..1}
               \cup {i \in base : ~i.decodeOk}
          [] txType = CommitRevisionTransaction ->
               {[in EXCEPT !.newRevision = n, !.newValidProofOutputs = o]
                  : in \in {i \in withId : i.decodeOk},
                    n \in 1..2, o \in RevisionOutputs}
               \cup {i \in base : ~i.decodeOk}
          [] txType = StorageProofTransaction ->
               {i \in withId : i.decodeOk} \cup {i \in base : ~i.decodeOk}
          [] OTHER -> {PlainStorageInput}

\* what a DPoS transaction carries: its sender, whether its data decodes
\* (the cancelling transactions carry no data), how the dpos.Process*
\* function ends, and its gas, which is looked at once Process* has succeeded
DposInputs(txType) ==
    {in \in [from : Callers, decodeOk : BOOLEAN,
             process : {"ok", "errBefore", "errAfter"}, gas : 0..MaxGas] :
       /\ in.process = "ok" \/ in.gas = MaxGas
       /\ \/ in.decodeOk
          \/ /\ txType \in {ApplyCandidate, Vote}
             /\ in.process = "ok" /\ in.gas = MaxGas /\ in.from = ClientAddr}

HostAnnounceTx(s, in) ==
    IF ~in.decodeOk THEN [s |-> s, err |-> "errDec"]
    ELSE IF ~in.checkOk THEN [s |-> s, err |-> "errCheck"]
    ELSE [s |-> s, err |-> "nil"]

\* CheckCreateContract: as the input says, and both parties can pay
CheckCreateContract(s, in) ==
    /\ in.checkOk
    /\ s.balance[ClientAddr] >= in.clientCollateral
    /\ s.balance[HostAddr] >= in.hostCollateral

\* a CreateContractTx that funds the contract with the client's collateral only
CreateContractTxClientOnly(s0, in) ==
    LET snap == Snapshot(s0)
        statusAddr == StatusAddr(in.windowEnd)
        contractAddr == ContractAddr(in.id)
        s1 == IF ~Exist(snap.s, statusAddr)
              THEN SetNonce(CreateAccount(snap.s, statusAddr), statusAddr, 1)
              ELSE snap.s
        s2 == SetNonce(CreateAccount(s1, contractAddr), contractAddr, 1)
        s3 == SubBalance(SubBalance(s2, ClientAddr, in.clientCollateral),
                         HostAddr, in.hostCollateral)
        s4 == AddBalance(s3, contractAddr, in.clientCollateral)
        s5 == SetState(s4, statusAddr, KeyOfContract(in.id), 1)
        s6 == [s5 EXCEPT !.storage[contractAddr] =
                 [k \in StateKeys |->
                    CASE k = KeyClientAddress -> HashOfAddress(ClientAddr)
                      [] k = KeyHostAddress -> HashOfAddress(HostAddr)
                      [] k = KeyClientCollateral -> in.clientCollateral
                      [] k = KeyHostCollateral -> in.hostCollateral
                      [] k = KeyUnlockHash -> in.id
                      [] k = KeyRevisionNumber -> 1
                      [] k = KeyWindowStart -> in.windowEnd - 1
                      [] k = KeyWindowEnd -> in.windowEnd
                      [] k = KeyClientValidProofOutput -> in.clientCollateral
                      [] k = KeyHostValidProofOutput -> in.hostCollateral
                      [] k = KeyClientMissedProofOutput -> in.clientCollateral
                      [] k = KeyHostMissedProofOutput -> in.hostCollateral
                      [] OTHER -> @[k]]]
    IN  IF ~in.decodeOk THEN [s |-> snap.s, err |-> "errDecode"]
        ELSE IF Exist(s1, contractAddr)
        THEN [s |-> s1, err |-> "this storage contract already exist"]
        ELSE IF ~CheckCreateContract(s2, in)
        THEN [s |-> RevertToSnapshot(s2, snap.id), err |-> "errCheck"]
        ELSE [s |-> s6, err |-> "nil"]

\* The contract sc of the transaction has the client ClientAddr and the host
\* HostAddr, the collaterals of the input as its valid and missed proof
\* outputs, file size and file Merkle root zero, revision number 1, the
\* contract's id as unlock hash and a window that starts one block before
\* its end.
CreateContractTx(s0, in) ==
    LET snap == Snapshot(s0)
        statusAddr == StatusAddr(in.windowEnd)
        contractAddr == ContractAddr(in.id)
        s1 == IF ~Exist(snap.s, statusAddr)
              THEN SetNonce(CreateAccount(snap.s, statusAddr), statusAddr, 1)
              ELSE snap.s
        s2 == SetNonce(CreateAccount(s1, contractAddr), contractAddr, 1)
        s3 == SubBalance(SubBalance(s2, ClientAddr, in.clientCollateral),
                         HostAddr, in.hostCollateral)
        s4 == AddBalance(s3, contractAddr,
                         in.clientCollateral + in.hostCollateral)
        \* the contract is marked as not proofed (1)
        s5 == SetState(s4, statusAddr, KeyOfContract(in.id), 1)
        s6 == [s5 EXCEPT !.storage[contractAddr] =
                 [k \in StateKeys |->
                    CASE k = KeyClientAddress -> HashOfAddress(ClientAddr)
                      [] k = KeyHostAddress -> HashOfAddress(HostAddr)
                      [] k = KeyClientCollateral -> in.clientCollateral
                      [] k = KeyHostCollateral -> in.hostCollateral
                      [] k = KeyFileSize -> 0
                      [] k = KeyUnlockHash -> in.id
                      [] k = KeyFileMerkleRoot -> 0
                      [] k = KeyRevisionNumber -> 1
                      [] k = KeyWindowStart -> in.windowEnd - 1
                      [] k = KeyWindowEnd -> in.windowEnd
                      [] k = KeyClientValidProofOutput -> in.clientCollateral
                      [] k = KeyHostValidProofOutput -> in.hostCollateral
                      [] k = KeyClientMissedProofOutput -> in.clientCollateral
                      [] k = KeyHostMissedProofOutput -> in.hostCollateral
                      [] OTHER -> @[k]]]
    IN  IF ~in.decodeOk THEN [s |-> snap.s, err |-> "errDecode"]
        ELSE IF Exist(s1, contractAddr)
        THEN [s |-> s1, err |-> "this storage contract already exist"]
        ELSE IF ~CheckCreateContract(s2, in)
        THEN [s |-> RevertToSnapshot(s2, snap.id), err |-> "errCheck"]
        ELSE [s |-> s6, err |-> "nil"]

\* CheckRevisionContract: as the input says, and the revision number rises
CheckRevisionContract(s, in, contractAddr) ==
    /\ in.checkOk
    /\ in.newRevision > GetState(s, contractAddr, KeyRevisionNumber)

\* a CommitRevisionTx that also moves the end of the window
CommitRevisionTxMovesWindow(s, in) ==
    LET contractAddr == ContractAddr(in.id)
    IN  IF ~in.decodeOk THEN [s |-> s, err |-> "errDec"]
        ELSE IF ~Exist(s, contractAddr)
        THEN [s |-> s, err |-> "no this storage contract account"]
        ELSE IF ~CheckRevisionContract(s, in, contractAddr)
        THEN [s |-> s, err |-> "errCheck"]
        ELSE [s |-> SetState(SetState(s, contractAddr, KeyRevisionNumber,
                                      in.newRevision),
                             contractAddr, KeyWindowEnd, 0),
              err |-> "nil"]

\* The revision scr of the transaction has the file size 1, the new revision
\* number as its file Merkle root, the valid proof outputs of the input and
\* as missed proof outputs the client's valid output and nothing for the
\* host.
CommitRevisionTx(s, in) ==
    LET contractAddr == ContractAddr(in.id)
        s1 == [s EXCEPT !.storage[contractAddr] =
                 [k \in StateKeys |->
                    CASE k = KeyFileSize -> 1
                      [] k = KeyFileMerkleRoot -> in.newRevision
                      [] k = KeyRevisionNumber -> in.newRevision
                      [] k = KeyClientValidProofOutput ->
                           in.newValidProofOutputs[1]
                      [] k = KeyHostValidProofOutput ->
                           in.newValidProofOutputs[2]
                      [] k = KeyClientMissedProofOutput ->
                           in.newValidProofOutputs[1]
                      [] k = KeyHostMissedProofOutput -> 0
                      [] OTHER -> @[k]]]
    IN  IF ~in.decodeOk THEN [s |-> s, err |-> "errDec"]
        ELSE IF ~Exist(s, contractAddr)
        THEN [s |-> s, err |-> "no this storage contract account"]
        ELSE IF ~CheckRevisionContract(s, in, contractAddr)
        THEN [s |-> s, err |-> "errCheck"]
        ELSE [s |-> s1, err |-> "nil"]

\* CheckStorageProof: as the input says, and the contract is not proofed (1)
CheckStorageProof(s, in, statusAddr, contractAddr) ==
    /\ in.checkOk
    /\ statusAddr \in StateAddrs
    /\ GetState(s, statusAddr, KeyOfContract(in.id)) = 1

StorageProofTx(s, in) ==
    LET contractAddr == ContractAddr(in.id)
        windowEnd == GetState(s, contractAddr, KeyWindowEnd)
        clientValidOutput == GetState(s, contractAddr, KeyClientValidProofOutput)
        hostValidOutput == GetState(s, contractAddr, KeyHostValidProofOutput)
        clientAddress ==
            AddressOfHash(GetState(s, contractAddr, KeyClientAddress))
        hostAddress == AddressOfHash(GetState(s, contractAddr, KeyHostAddress))
        statusAddr == StatusAddr(windowEnd)
        s1 == AddBalance(AddBalance(s, clientAddress, clientValidOutput),
                         hostAddress, hostValidOutput)
        s2 == SubBalance(s1, contractAddr, clientValidOutput + hostValidOutput)
        \* the contract is marked as proofed (2)
        s3 == SetState(s2, statusAddr, KeyOfContract(in.id), 2)
        s4 == SetNonce(s3, contractAddr, 0)
    IN  IF ~in.decodeOk THEN [s |-> s, err |-> "errDec"]
        ELSE IF ~Exist(s, contractAddr)
        THEN [s |-> s, err |-> "no this storage contract account"]
        ELSE IF ~CheckStorageProof(s, in, statusAddr, contractAddr)
        THEN [s |-> s, err |-> "errCheck"]
        ELSE [s |-> s4, err |-> "nil"]

\* DeductGas(gas, cost): whether the gas covers the cost
DeductGas(gas, cost) == gas >= cost

\* a dpos.Process* function: it changes the context, then the state
ProcessAddCandidate(s, ctx, caller, outcome) ==
    LET ctx1 == [ctx EXCEPT !.candidates = @ \cup {caller}]
        s1 == SetState(s, caller, KeyCandidateDeposit, 1)
    IN  CASE outcome = "errBefore" -> [s |-> s, ctx |-> ctx, err |-> "errProcess"]
          [] outcome = "errAfter" -> [s |-> s, ctx |-> ctx1, err |-> "errProcess"]
          [] OTHER -> [s |-> s1, ctx |-> ctx1, err |-> "nil"]

ProcessCancelCandidate(s, ctx, caller, outcome) ==
    LET ctx1 == [ctx EXCEPT !.candidates = @ \ {caller}]
        s1 == SetState(s, caller, KeyCandidateDeposit, 0)
    IN  CASE outcome = "errBefore" -> [s |-> s, ctx |-> ctx, err |-> "errProcess"]
          [] outcome = "errAfter" -> [s |-> s, ctx |-> ctx1, err |-> "errProcess"]
          [] OTHER -> [s |-> s1, ctx |-> ctx1, err |-> "nil"]

ProcessVote(s, ctx, caller, outcome) ==
    LET ctx1 == [ctx EXCEPT !.votes = @ \cup {caller}]
        s1 == SetState(s, caller, KeyVoteDeposit, 1)
    IN  CASE outcome = "errBefore" -> [s |-> s, ctx |-> ctx, err |-> "errProcess"]
          [] outcome = "errAfter" -> [s |-> s, ctx |-> ctx1, err |-> "errProcess"]
          [] OTHER -> [s |-> s1, ctx |-> ctx1, err |-> "nil"]

ProcessCancelVote(s, ctx, caller, outcome) ==
    LET ctx1 == [ctx EXCEPT !.votes = @ \ {caller}]
        s1 == SetState(s, caller, KeyVoteDeposit, 0)
    IN  CASE outcome = "errBefore" -> [s |-> s, ctx |-> ctx, err |-> "errProcess"]
          [] outcome = "errAfter" -> [s |-> s, ctx |-> ctx1, err |-> "errProcess"]
          [] OTHER -> [s |-> s1, ctx |-> ctx1, err |-> "nil"]

CandidateTx(s, ctx, in) ==
    LET r == ProcessAddCandidate(s, ctx, in.from, in.process)
    IN  IF ~in.decodeOk THEN [s |-> s, ctx |-> ctx, err |-> "errDec"]
        ELSE IF r.err # "nil" THEN r
        ELSE IF ~DeductGas(in.gas, 3) THEN [r EXCEPT !.err = "ErrOutOfGas"]
        ELSE r

CandidateCancelTx(s, ctx, in) ==
    LET r == ProcessCancelCandidate(s, ctx, in.from, in.process)
    IN  IF r.err # "nil" THEN r
        ELSE IF ~DeductGas(in.gas, 2) THEN [r EXCEPT !.err = "ErrOutOfGas"]
        ELSE r

VoteTx(s, ctx, in) ==
    LET r == ProcessVote(s, ctx, in.from, in.process)
    IN  IF ~in.decodeOk THEN [s |-> s, ctx |-> ctx, err |-> "errDec"]
        ELSE IF r.err # "nil" THEN r
        ELSE IF ~DeductGas(in.gas, 4) THEN [r EXCEPT !.err = "ErrOutOfGas"]
        ELSE r

CancelVoteTx(s, ctx, in) ==
    LET r == ProcessCancelVote(s, ctx, in.from, in.process)
    IN  IF r.err # "nil" THEN r
        ELSE IF ~DeductGas(in.gas, 2) THEN [r EXCEPT !.err = "ErrOutOfGas"]
        ELSE r

\* the transaction that ApplyStorageContractTransaction switches to
StorageContractTx(s, txType, in) ==
    CASE txType = HostAnnounceTransaction -> HostAnnounceTx(s, in)
      [] txType = ContractCreateTransaction -> CreateContractTx(s, in)
      [] txType = CommitRevisionTransaction -> CommitRevisionTx(s, in)
      [] txType = StorageProofTransaction -> StorageProofTx(s, in)
      [] OTHER -> [s |-> s, err |-> "errUnknownStorageContractTx"]

\* an ApplyStorageContractTransaction whose deferred function reverts nothing
ApplyStorageContractTransactionNoRevert(s, txType, in) ==
    LET stateSnap == Snapshot(s)
        r == StorageContractTx(stateSnap.s, txType, in)
    IN  [s |-> r.s, err |-> r.err,
         dirty |-> Content(r.s) # Content(s)]

ApplyStorageContractTransaction(s, txType, in) ==
    LET stateSnap == Snapshot(s)
        r == StorageContractTx(stateSnap.s, txType, in)
    IN  [s |-> IF r.err # "nil" THEN RevertToSnapshot(r.s, stateSnap.id)
               ELSE r.s,
         err |-> r.err,
         dirty |-> Content(r.s) # Content(s)]

\* the transaction that ApplyDposTransaction switches to
DposTx(s, ctx, txType, in) ==
    CASE txType = ApplyCandidate -> CandidateTx(s, ctx, in)
      [] txType = CancelCandidate -> CandidateCancelTx(s, ctx, in)
      [] txType = Vote -> VoteTx(s, ctx, in)
      [] txType = CancelVote -> CancelVoteTx(s, ctx, in)
      [] OTHER -> [s |-> s, ctx |-> ctx, err |-> "errUnknownDposOperationTx"]

ApplyDposTransaction(s, dposContext, txType, in) ==
    LET dposSnap == dposContext
        stateSnap == Snapshot(s)
        r == DposTx(stateSnap.s, dposContext, txType, in)
    IN  [s |-> IF r.err # "nil" THEN RevertToSnapshot(r.s, stateSnap.id)
               ELSE r.s,
         ctx |-> IF r.err # "nil" THEN dposSnap ELSE r.ctx,
         err |-> r.err,
         dirty |-> Content(r.s) # Content(s) \/ r.ctx # dposContext]

ApplyInit ==
    /\ \E c \in 1..MaxBalance : \E h \in 0..(MaxBalance - 1) :
         db = [state |-> [exist |-> Callers,
                          nonce |-> [a \in StateAddrs |-> 0],
                          balance |-> [a \in StateAddrs |->
                                         IF a = ClientAddr THEN c
                                         ELSE IF a = HostAddr THEN h ELSE 0],
                          storage |-> [a \in StateAddrs |-> EmptyStorage],
                          validRevisions |-> <<>>, nextRevisionId |-> 0,
                          panicked |-> FALSE],
               dpos |-> [candidates |-> {}, votes |-> {}],
               calls |-> 0,
               last |-> [fn |-> "none", txType |-> "none", err |-> "nil",
                         dirty |-> FALSE]]
    /\ mk = <<>> /\ sectors = <<>> /\ hs = <<>> /\ config = <<>> /\ wr = <<>>
    /\ cc = <<>> /\ rd = <<>> /\ lk = <<>>

ApplyStorageContractTransactionCall ==
    /\ db.calls < MaxApplyCalls
    /\ ~db.state.panicked
    /\ \E txType \in StorageTxTypes : \E in \in StorageInputs(txType) :
         LET r == ApplyStorageContractTransaction(db.state, txType, in)
         IN  db' = [db EXCEPT !.state = r.s, !.calls = @ + 1,
                              !.last = [fn |-> "storage", txType |-> txType,
                                        err |-> r.err, dirty |-> r.dirty]]
    /\ UNCHANGED <<mk, sectors, hs, config, wr, cc, rd, lk>>

ApplyDposTransactionCall ==
    /\ db.calls < MaxApplyCalls
    /\ ~db.state.panicked
    /\ \E txType \in DposTxTypes : \E in \in DposInputs(txType) :
         LET r == ApplyDposTransaction(db.state, db.dpos, txType, in)
         IN  db' = [db EXCEPT !.state = r.s, !.dpos = r.ctx, !.calls = @ + 1,
                              !.last = [fn |-> "dpos", txType |-> txType,
                                        err |-> r.err, dirty |-> r.dirty]]
    /\ UNCHANGED <<mk, sectors, hs, config, wr, cc, rd, lk>>

ApplyNext == ApplyStorageContractTransactionCall \/ ApplyDposTransactionCall

SpecApply == ApplyInit /\ [][ApplyNext]_vars

(***************************************************************************)
(* The lucky wheel of package dpos: newLuckyWheel, RandomSelect,           *)
(* randomSelect and selectSingleEntry.                                     *)
(*                                                                         *)
(* Under SpecWheel the variable mk holds one luckyWheel and its caller:    *)
(*   given     the entries handed to newLuckyWheel                         *)
(*   entries, target, results, sumVotes    the fields of the luckyWheel    *)
(*   once      whether lw.once has been used                               *)
(*   i         the loop counter of randomSelect                            *)
(*   fallback  whether the last selectSingleEntry left its loop            *)
(*   out, first, calls   the list the last and the first RandomSelect      *)
(*             returned, and the number of calls that have returned        *)
(* An address is a positive number and common.Address{} is 0.  The value   *)
(* randomBigInt draws is any number in [0, max), and 0 when max is 0, as   *)
(* big.Int.Rand gives it.  common.BigInt is not part of the source at      *)
(* hand; as newLuckyWheel and selectSingleEntry use it (x = x.Add(y)), its *)
(* Add and Sub return the result and leave the receiver as it is.          *)
(***************************************************************************)
\* the most entries a wheel is built from
MaxEntries == 3
\* the most votes of an entry
MaxVote == 2
\* the calls of RandomSelect on one wheel
MaxSelectCalls == 2

\* the lists of entries: the i-th entry has the address i
EntryLists ==
    UNION {{[i \in 1..n |-> [addr |-> i, vote |-> votes[i]]]
              : votes \in [1..n -> 0..MaxVote]} : n \in 0..MaxEntries}

RECURSIVE SumVotes(_)
SumVotes(entries) ==
    IF Len(entries) = 0 THEN 0
    ELSE entries[1].vote + SumVotes(Tail(entries))

\* make([]common.Address, n)
ZeroAddresses(n) == [i \in 1..n |-> 0]

\* newLuckyWheel(entries, seed, target)
newLuckyWheel(entries, target) ==
    IF Len(entries) < target
    THEN [pc |-> "failed", given |-> entries, entries |-> entries,
          target |-> target, results |-> <<>>, sumVotes |-> 0,
          once |-> FALSE, i |-> 0, fallback |-> FALSE,
          out |-> <<>>, first |-> <<>>, calls |-> 0]
    ELSE [pc |-> "ready", given |-> entries, entries |-> entries,
          target |-> target, results |-> ZeroAddresses(target),
          sumVotes |-> SumVotes(entries),
          once |-> FALSE, i |-> 0, fallback |-> FALSE,
          out |-> <<>>, first |-> <<>>, calls |-> 0]

\* the values randomBigInt(r, max) may return
randomBigInt(max) == IF max <= 0 THEN {0} ELSE 0..(max - 1)

\* the loop of selectSingleEntry from the entry at index i (counted from 0)
\* on: the index returned, and whether the loop was left without a return
RECURSIVE selectFrom(_, _, _)
selectFrom(entries, i, selected) ==
    IF i >= Len(entries)
    THEN [index |-> Len(entries) - 1, fallback |-> TRUE]
    ELSE LET vote == entries[i + 1].vote
         IN  \* vote.Cmp(selected) <= 0
             IF vote <= selected
             THEN [index |-> i, fallback |-> FALSE]
             ELSE selectFrom(entries, i + 1, selected - vote)

selectSingleEntry(entries, selected) == selectFrom(entries, 0, selected)

\* entries without the one at index (counted from 0)
RemoveEntry(entries, index) ==
    SubSeq(entries, 1, index) \o SubSeq(entries, index + 2, Len(entries))

WheelInit ==
    /\ \E entries \in EntryLists : \E target \in 0..(MaxEntries + 1) :
         mk = newLuckyWheel(entries, target)
    /\ db = NoSr /\ sectors = <<>> /\ hs = <<>> /\ config = <<>> /\ wr = <<>>
    /\ cc = <<>> /\ rd = <<>> /\ lk = <<>>

\* what a call of RandomSelect returns: lw.results
WheelReturns(lw) ==
    [lw EXCEPT !.pc = "returned", !.out = lw.results,
               !.first = IF lw.calls = 0 THEN lw.results ELSE @,
               !.calls = @ + 1]

\* RandomSelect is called: the first call runs randomSelect, a later one
\* returns at once
WheelRandomSelect ==
    /\ mk.pc \in {"ready", "returned"}
    /\ mk.calls < MaxSelectCalls
    /\ mk' = IF mk.once THEN WheelReturns(mk)
             ELSE [mk EXCEPT !.pc = "selecting", !.once = TRUE, !.i = 0]
    /\ UNCHANGED <<db, sectors, hs, config, wr, cc, rd, lk>>

\* one turn of the loop of randomSelect
WheelPick ==
    /\ mk.pc = "selecting"
    /\ mk.i < mk.target
    /\ \E selected \in randomBigInt(mk.sumVotes) :
         LET sel == selectSingleEntry(mk.entries, selected)
         IN  mk' = IF sel.index < 0
                   THEN [mk EXCEPT !.pc = "panicked"]
                   ELSE [mk EXCEPT
                           !.results =
                               Append(@, mk.entries[sel.index + 1].addr),
                           !.entries = RemoveEntry(@, sel.index),
                           \* lw.sumVotes.Sub(selectedEntry.vote): the
                           \* difference is returned and not kept
                           !.sumVotes = @,
                           !.fallback = sel.fallback,
                           !.i = @ + 1]
    /\ UNCHANGED <<db, sectors, hs, config, wr, cc, rd, lk>>

\* the loop of randomSelect has ended and the first RandomSelect returns
WheelSelected ==
    /\ mk.pc = "selecting"
    /\ mk.i >= mk.target
    /\ mk' = WheelReturns(mk)
    /\ UNCHANGED <<db, sectors, hs, config, wr, cc, rd, lk>>

WheelNext == WheelRandomSelect \/ WheelPick \/ WheelSelected

SpecWheel == WheelInit /\ [][WheelNext]_vars

(***************************************************************************)
(* The nodes of the storage host tree (package storagehosttree):           *)
(* nodeInsert and nodeRemove.                                              *)
(*                                                                         *)
(* Under SpecTree the variable mk holds one tree:                          *)
(*   nodes     the nodes, by their path from the root (<<>> is the root,   *)
(*             p \o <<"left">> the left child of p); a node has the fields *)
(*             occupied, eval, count and entry, the eval of its entry      *)
(*             (0 while the node has had no entry)                         *)
(*   ops       the calls made so far                                       *)
(*   removed   whether nodeRemove has been called                          *)
(* The tree starts as the lone root that is not occupied, with eval 0 and  *)
(* count 1; the code that creates it is not part of the source at hand.    *)
(* nodeInsert is called on the root and nodeRemove on an occupied node, as *)
(* a tree that looks its nodes up by host does.                            *)
(***************************************************************************)
\* the calls of nodeInsert and nodeRemove in one run
MaxTreeOps == 5
\* the largest evaluation of an entry
MaxEval == 2

RootNode == <<>>
LeftOf(n) == n \o <<"left">>
RightOf(n) == n \o <<"right">>

\* whether the node a is n or above n
IsAbove(a, n) == Len(a) <= Len(n) /\ SubSeq(n, 1, Len(a)) = a

\* newNode(parent, entry)
newNode(entry) ==
    [occupied |-> TRUE, eval |-> entry, count |-> 1, entry |-> entry]

\* n.nodeRemove()
nodeRemove(nodes, n) ==
    [p \in DOMAIN nodes |->
        IF p = n THEN [nodes[p] EXCEPT !.occupied = FALSE]
        ELSE IF IsAbove(p, n)
        THEN [nodes[p] EXCEPT !.eval = @ - nodes[n].entry]
        ELSE nodes[p]]

\* n.nodeInsert(entry): the nodes afterwards, nodesAdded and nodeInserted
RECURSIVE nodeInsert(_, _, _)
nodeInsert(nodes, n, entry) ==
    IF /\ n = RootNode /\ ~nodes[n].occupied
       /\ LeftOf(n) \notin DOMAIN nodes /\ RightOf(n) \notin DOMAIN nodes
    THEN [nodes |-> [nodes EXCEPT ![n].occupied = TRUE, ![n].entry = entry,
                                  ![n].eval = entry],
          nodesAdded |-> 0, nodeInserted |-> n]
    ELSE LET added == [nodes EXCEPT ![n].eval = @ + entry]
         IN  IF ~nodes[n].occupied
             THEN [nodes |-> [added EXCEPT ![n].occupied = TRUE,
                                           ![n].entry = entry],
                   nodesAdded |-> 0, nodeInserted |-> n]
             ELSE LET r == IF LeftOf(n) \notin DOMAIN nodes
                           THEN [nodes |-> added @@ (LeftOf(n) :> newNode(entry)),
                                 nodesAdded |-> 1, nodeInserted |-> LeftOf(n)]
                           ELSE IF RightOf(n) \notin DOMAIN nodes
                           THEN [nodes |-> added @@ (RightOf(n) :> newNode(entry)),
                                 nodesAdded |-> 1, nodeInserted |-> RightOf(n)]
                           ELSE IF nodes[LeftOf(n)].count <= nodes[RightOf(n)].count
                           THEN nodeInsert(added, LeftOf(n), entry)
                           ELSE nodeInsert(added, RightOf(n), entry)
                  IN  [r EXCEPT !.nodes[n].count = @ + r.nodesAdded]

TreeInit ==
    /\ mk = [nodes |-> (RootNode :> [occupied |-> FALSE, eval |-> 0,
                                     count |-> 1, entry |-> 0]),
             ops |-> 0, removed |-> FALSE]
    /\ db = NoSr /\ sectors = <<>> /\ hs = <<>> /\ config = <<>> /\ wr = <<>>
    /\ cc = <<>> /\ rd = <<>> /\ lk = <<>>

TreeInsert ==
    /\ mk.ops < MaxTreeOps
    /\ \E entry \in 1..MaxEval :
         mk' = [mk EXCEPT !.nodes = nodeInsert(mk.nodes, RootNode, entry).nodes,
                          !.ops = @ + 1]
    /\ UNCHANGED <<db, sectors, hs, config, wr, cc, rd, lk>>

TreeRemove ==
    /\ mk.ops < MaxTreeOps
    /\ \E n \in DOMAIN mk.nodes :
         /\ mk.nodes[n].occupied
         /\ mk' = [mk EXCEPT !.nodes = nodeRemove(mk.nodes, n),
                             !.ops = @ + 1, !.removed = TRUE]
    /\ UNCHANGED <<db, sectors, hs, config, wr, cc, rd, lk>>

TreeNext == TreeInsert \/ TreeRemove

SpecTree == TreeInit /\ [][TreeNext]_vars

(***************************************************************************)
(* StorageHost.ReadSector (negotiationproto.go).                           *)
(*                                                                         *)
(* Under SpecReadSector the variable mk holds one call of it:              *)
(*   pc          "idle", "running", "returned", or "fatal" once the Go     *)
(*               runtime has stopped the process with a stack overflow     *)
(*   sectorRoot  the root asked for                                        *)
(*   stored      whether the host holds a sector with that root            *)
(*   frames      the frames of ReadSector on the goroutine's stack         *)
(* The body of the method is the one statement                             *)
(* "return h.ReadSector(sectorRoot)", a call of the method itself.         *)
(***************************************************************************)
\* the frames of ReadSector that fit on a goroutine's stack
MaxFrames == 64
\* the sector roots asked for
NumSectorRoots == 2

ReadSectorInit ==
    /\ mk = [pc |-> "idle", sectorRoot |-> 0, stored |-> FALSE, frames |-> 0]
    /\ db = NoSr /\ sectors = <<>> /\ hs = <<>> /\ config = <<>> /\ wr = <<>>
    /\ cc = <<>> /\ rd = <<>> /\ lk = <<>>

\* a caller calls h.ReadSector(sectorRoot)
ReadSectorCall ==
    /\ mk.pc = "idle"
    /\ \E sectorRoot \in 1..NumSectorRoots : \E stored \in BOOLEAN :
         mk' = [pc |-> "running", sectorRoot |-> sectorRoot,
                stored |-> stored, frames |-> 1]
    /\ UNCHANGED <<db, sectors, hs, config, wr, cc, rd, lk>>

\* the top frame runs its body: it calls h.ReadSector(sectorRoot); a frame
\* that does not fit on the stack is fatal
ReadSector ==
    /\ mk.pc = "running"
    /\ mk' = IF mk.frames < MaxFrames
             THEN [mk EXCEPT !.frames = @ + 1]
             ELSE [mk EXCEPT !.pc = "fatal"]
    /\ UNCHANGED <<db, sectors, hs, config, wr, cc, rd, lk>>

ReadSectorNext == ReadSectorCall \/ ReadSector

SpecReadSector ==
    ReadSectorInit /\ [][ReadSectorNext]_vars /\ WF_vars(ReadSectorNext)

(***************************************************************************)
(* A SubtreeRootReader over bytes and a CachedSubtreeRoot over the hashes  *)
(* of the same leaves receive the same calls, GetSubtreeRoot(n) and        *)
(* Skip(n) with n >= 0.  A record mk holds the bytes r the reader has not  *)
(* read, its leafSize, the leafRoots the cached source still holds, and in *)
(* last the latest call with what each source returned.                     *)
(***************************************************************************)
PairCounts == 0..(MaxLeaves + 1)

PairInit ==
    /\ \E b \in ByteSeqs, z \in 1..MaxLeafSize :
         mk = [r |-> b, leafSize |-> z, leafRoots |-> LeavesOfBytes(b, z),
               calls |-> 0,
               last |-> [op |-> "none", n |-> 0,
                         readerRoot |-> NilHash, readerErr |-> "nil",
                         cachedRoot |-> NilHash, cachedErr |-> "nil"]]
    /\ db = NoSr /\ sectors = <<>> /\ hs = <<>> /\ config = <<>> /\ wr = <<>>
    /\ cc = <<>> /\ rd = <<>> /\ lk = <<>>

PairGetSubtreeRoot ==
    /\ mk.calls < MaxCalls
    /\ \E n \in PairCounts :
         LET reader == ReaderGetSubtreeRoot(mk.r, mk.leafSize, n)
             cached == CachedGetSubtreeRoot(mk.leafRoots, n)
         IN  mk' = [mk EXCEPT !.r = reader.r,
                              !.leafRoots = cached.leafRoots,
                              !.calls = mk.calls + 1,
                              !.last = [op |-> "GetSubtreeRoot", n |-> n,
                                        readerRoot |-> reader.root,
                                        readerErr  |-> reader.err,
                                        cachedRoot |-> cached.root,
                                        cachedErr  |-> cached.err]]
    /\ UNCHANGED <<db, sectors, hs, config, wr, cc, rd, lk>>

PairSkip ==
    /\ mk.calls < MaxCalls
    /\ \E n \in PairCounts :
         LET reader == ReaderSkip(mk.r, mk.leafSize, n)
             cached == CachedSkip(mk.leafRoots, n)
         IN  mk' = [mk EXCEPT !.r = reader.r,
                              !.leafRoots = cached.leafRoots,
                              !.calls = mk.calls + 1,
                              !.last = [op |-> "Skip", n |-> n,
                                        readerRoot |-> NilHash,
                                        readerErr  |-> reader.err,
                                        cachedRoot |-> NilHash,
                                        cachedErr  |-> cached.err]]
    /\ UNCHANGED <<db, sectors, hs, config, wr, cc, rd, lk>>

PairNext == PairGetSubtreeRoot \/ PairSkip

SpecPair == PairInit /\ [][PairNext]_vars

(***************************************************************************)
(* C1: for every leaf sequence and every sorted list of disjoint non-empty *)
(* limits inside [0, N), the proof getLimitStorageProof builds is accepted *)
(* by checkLimitStorageProof, given the leaf hashes of the limits and the  *)
(* Merkle root of the whole sequence: the verdict is true with no error.   *)
(***************************************************************************)
C1_RoundTrip ==
    (mk.pc = "checked" /\ mk.tampered = "no" /\ InRange(mk.limits, Len(mk.leaves)))
        => (mk.getErr = "nil" /\ mk.verdict.ok /\ mk.verdict.err = "nil")

\* a proof over two limits of an uneven tree was built and checked
C1_Witness ==
    /\ mk.pc = "checked" /\ mk.tampered = "no"
    /\ InRange(mk.limits, Len(mk.leaves))
    /\ Len(mk.limits) = 2 /\ Len(mk.leaves) = 3 /\ Len(mk.proof) > 0

(***************************************************************************)
(* C2: from a proof, claimed leaves and root that verify, replacing one    *)
(* proof hash or one claimed leaf hash by a different value makes          *)
(* checkLimitStorageProof answer false or an error, and no input makes it  *)
(* panic.                                                                   *)
(***************************************************************************)
C2_TamperDetected ==
    /\ mk.pc = "checked" => mk.verdict.err # "panic"
    /\ (mk.pc = "checked" /\ mk.tampered \in {"proof", "leaf"})
          => (~mk.verdict.ok \/ mk.verdict.err # "nil")

\* a proof over at least three leaves with one proof hash altered has been
\* checked against the untouched root
C2_Witness ==
    /\ mk.pc = "checked" /\ mk.tampered = "proof"
    /\ Len(mk.limits) > 0 /\ Len(mk.leaves) >= 3

(***************************************************************************)
(* What the claims about the upload handler speak of.                      *)
(***************************************************************************)
\* handler h is past its first read: it holds a snapshot and a revision
InFlight(h) == hs[h].pc \in {"waitClientRevSign", "waitClientCommit", "sendAck"}

\* the fully updated record of handler h, field by field: the tentative
\* roots, the snapshot's totals plus what the upload adds, and the
\* snapshot's chain with the new revision at its end
FullyUpdated(h) ==
    LET snap  == hs[h].nd.srSnapshot
        proof == hs[h].nd.merkleProof
    IN  [SectorRoots |-> hs[h].nd.newRoots,
         StorageContractRevisions |->
             Append(snap.StorageContractRevisions, hs[h].newRev),
         PotentialStorageRevenue |->
             snap.PotentialStorageRevenue + hs[h].nd.storageRevenue,
         RiskedStorageDeposit |-> snap.RiskedStorageDeposit + hs[h].nd.newDeposit,
         PotentialUploadRevenue |->
             snap.PotentialUploadRevenue + hs[h].nd.bandwidthRevenue
               + config.DownloadBandwidthPrice * HashSize
                   * (Len(proof.OldSubtreeHashes) + Len(proof.OldLeafHashes))]

\* the sector store with the sectors handler h gained taken out again
Released(h) ==
    [r \in SectorRootSet |-> sectors[r] - Occurrences(hs[h].nd.sectorGained, r)]

\* this step is handler h failing to send its acknowledgement
AckFailed(h) ==
    /\ hs[h].pc = "sendAck"
    /\ hs'[h].pc = "done"
    /\ hs'[h].negotiateErr = "failed to send the host ack message"

C5_OneNegotiationPerContract ==
    \A g, h \in Handlers :
        (g # h /\ hs[g].pc = "sendAck" /\ hs[h].pc = "sendAck")
            => hs[g].nd.srSnapshot # hs[h].nd.srSnapshot

(***************************************************************************)
(* C6: the responsibility and the sector store change only in steps of a   *)
(* handler that has read the client's commit-success message; a handler    *)
(* that reads commit-failed, negotiate-error, an unrecognised code, or     *)
(* fails to read, returns an error and leaves the responsibility, with its *)
(* revenue totals, and the sector store unchanged.                         *)
(***************************************************************************)
C6_CommitOnlyAfterSuccess ==
    [][/\ (db' # db \/ sectors' # sectors) =>
            \E h \in Handlers : /\ hs'[h] # hs[h]
                                 /\ hs'[h].lastRecv = "ClientCommitSuccessMsg"
       /\ \A h \in Handlers :
            (hs[h].pc = "waitClientCommit" /\ hs'[h] # hs[h]
               /\ hs'[h].lastRecv # "ClientCommitSuccessMsg")
              => /\ hs'[h].pc = "done" /\ hs'[h].negotiateErr # "nil"
                 /\ db' = db /\ sectors' = sectors]_vars

\* a handler read commit-failed and returned an error, and another read
\* commit-success and committed
C6_Witness ==
    \E g, h \in Handlers :
        /\ hs[g].pc = "done" /\ hs[g].lastRecv = "ClientCommitFailedMsg"
        /\ hs[g].negotiateErr = "ErrClientCommit"
        /\ hs[h].pc = "sendAck" /\ hs[h].lastRecv = "ClientCommitSuccessMsg"
        /\ db = hs[h].sr

(***************************************************************************)
(* C7: the revision a handler holds after constructAndVerifyNewRevision    *)
(* has exactly two valid-proof outputs and exactly two missed-proof        *)
(* outputs, with the addresses of the previous revision.                   *)
(***************************************************************************)
C7_TwoOutputs ==
    \A h \in Handlers :
        InFlight(h) =>
            LET prev == LatestRevision(hs[h].nd.srSnapshot)
                rev  == hs[h].newRev
            IN  /\ Len(rev.NewValidProofOutputs) = 2
                /\ Len(rev.NewMissedProofOutputs) = 2
                /\ \A i \in 1..2 :
                     /\ rev.NewValidProofOutputs[i].Address
                          = prev.NewValidProofOutputs[i].Address
                     /\ rev.NewMissedProofOutputs[i].Address
                          = prev.NewMissedProofOutputs[i].Address

C11_SuccessOnlyAfterSubmit ==
    /\ cc.tx => (cc.reads = <<TRUE, TRUE>> /\ cc.decodes = <<>>)
    /\ (cc.pc = "returned" /\ cc.err = "nil") => cc.tx

(***************************************************************************)
(* C12: if reading or decoding one of the host's replies fails during      *)
(* ContractCreate, the call returns an error and no transaction is         *)
(* submitted.                                                               *)
(***************************************************************************)
C12_FailedReplyReturnsError ==
    (\/ \E i \in 1..Len(cc.reads) : ~cc.reads[i]
     \/ \E i \in 1..Len(cc.decodes) : cc.decodes[i] # "ok")
        => (cc.pc = "returned" /\ cc.err # "nil" /\ ~cc.tx)

(***************************************************************************)
(* What the claims about Read speak of.                                     *)
(***************************************************************************)
\* a section Read must refuse: it reaches past the sector, or a proof is
\* asked for and its offset or length is no multiple of SegmentSize
BadSection(sec, merkleProof) ==
    \/ sec.Offset + sec.Length > SectorSize
    \/ merkleProof /\ (sec.Offset % SegmentSize # 0 \/ sec.Length % SegmentSize # 0)

BadRequest(req) ==
    \E i \in 1..Len(req.Sections) : BadSection(req.Sections[i], req.MerkleProof)

(***************************************************************************)
(* C13: when some section of the request has offset + length greater than  *)
(* SectorSize, or a proof is requested and some section's offset or length *)
(* is not a multiple of SegmentSize, Read returns an error having sent no   *)
(* message, read no message and written no byte.                            *)
(***************************************************************************)
C13_BadRequestRejectedFirst ==
    (rd.pc # "start" /\ BadRequest(rd.req))
        => /\ rd.pc = "returned"
           /\ rd.err \in {"illegal offset and/or length",
                          "offset and length must be multiples of SegmentSize"}
           /\ rd.sent = <<>> /\ rd.reads = 0 /\ rd.written = <<>>

\* a request with a proof was refused for the offset of its second section,
\* the first section being in order
C13_Witness ==
    /\ rd.pc = "returned" /\ rd.req.MerkleProof
    /\ Len(rd.req.Sections) = 2
    /\ ~BadSection(rd.req.Sections[1], TRUE)
    /\ rd.req.Sections[2].Offset % SegmentSize # 0
    /\ rd.req.Sections[2].Offset + rd.req.Sections[2].Length <= SectorSize
    /\ rd.err = "offset and length must be multiples of SegmentSize"

StorageContractCreationMsg == 34
StorageContractCreationHostSignMsg == 35
StorageContractCreationClientRevisionSignMsg == 36
StorageContractCreationHostRevisionSignMsg == 37
StorageContractUploadRequestMsg == 38
StorageContractUploadMerkleRootProofMsg == 39
StorageContractUploadClientRevisionMsg == 40
StorageContractUploadHostRevisionMsg == 41
StorageContractDownloadRequestMsg == 51
StorageContractDownloadDataMsg == 52
StorageContractDownloadHostRevisionMsg == 53
NegotiationErrorMsg == 51
NegotiationStopMsg == 52
HostConfigRespMsg == 32
UploadMerkleProofMsg == 33
HostConfigReqMsg == 48
ContractCreateReqMsg == 49
UploadReqMsg == 50

\* the code of every message, by its name
MessageCodes ==
    [StorageContractCreationMsg |-> StorageContractCreationMsg,
     StorageContractCreationHostSignMsg |-> StorageContractCreationHostSignMsg,
     StorageContractCreationClientRevisionSignMsg |->
         StorageContractCreationClientRevisionSignMsg,
     StorageContractCreationHostRevisionSignMsg |->
         StorageContractCreationHostRevisionSignMsg,
     StorageContractUploadRequestMsg |-> StorageContractUploadRequestMsg,
     StorageContractUploadMerkleRootProofMsg |-> StorageContractUploadMerkleRootProofMsg,
     StorageContractUploadClientRevisionMsg |-> StorageContractUploadClientRevisionMsg,
     StorageContractUploadHostRevisionMsg |-> StorageContractUploadHostRevisionMsg,
     StorageContractDownloadRequestMsg |-> StorageContractDownloadRequestMsg,
     StorageContractDownloadDataMsg |-> StorageContractDownloadDataMsg,
     StorageContractDownloadHostRevisionMsg |-> StorageContractDownloadHostRevisionMsg,
     NegotiationErrorMsg |-> NegotiationErrorMsg,
     NegotiationStopMsg |-> NegotiationStopMsg,
     HostConfigRespMsg |-> HostConfigRespMsg,
     UploadMerkleProofMsg |-> UploadMerkleProofMsg,
     HostConfigReqMsg |-> HostConfigReqMsg,
     ContractCreateReqMsg |-> ContractCreateReqMsg,
     UploadReqMsg |-> UploadReqMsg]

(***************************************************************************)
(* C17: the codes of the negotiation messages are pairwise distinct: no    *)
(* two message names stand for the same number, so that a download         *)
(* request, download data, a negotiation error and a negotiation stop can  *)
(* be told apart by their code.                                             *)
(***************************************************************************)
C17_CodesPairwiseDistinct ==
    /\ \A a, b \in DOMAIN MessageCodes :
          a # b => MessageCodes[a] # MessageCodes[b]
    \* the code of a message Read has sent stands for that message alone
    /\ \A i \in 1..Len(rd.sent) : \A name \in DOMAIN MessageCodes :
          MessageCodes[name] = MessageCodes[rd.sent[i].code] => name = rd.sent[i].code

(***************************************************************************)
(* C18: a negotiation that waits in checkAndTryLockStorageObligation for a *)
(* busy contract does not hold the host-wide lock while it waits, and so   *)
(* no call for another contract (a lock, an unlock or a read of its        *)
(* responsibility) is kept waiting for the host-wide lock by it.            *)
(***************************************************************************)
C18_WaitingHoldsNoHostLock ==
    \A p \in LockProcs :
        lk.procs[p].pc = "waiting" =>
            /\ lk.writer # p
            /\ \A q \in LockProcs :
                 (lk.procs[q].pc = "calling" /\ lk.procs[q].soid # lk.procs[p].soid)
                     => IF lk.procs[q].op = "get" THEN CanRLock(lk) ELSE CanLock(lk)

(***************************************************************************)
(* C19: when the rollback after a failed acknowledgement fails itself, the *)
(* handler's outcome says so: the error it returns (and reports to the     *)
(* client) is not the one it returns when the rollback succeeded.           *)
(***************************************************************************)
C19_RollbackFailureReported ==
    \A h \in Handlers :
        (hs[h].pc = "done" /\ hs[h].rollbackErr \notin {"none", "nil"})
            => \A g \in Handlers :
                 (hs[g].pc = "done" /\ hs[g].rollbackErr = "nil")
                     => hs[h].negotiateErr # hs[g].negotiateErr

C21_SingleRangeRoundTrip ==
    (/\ mk.pc = "checked" /\ mk.tampered \in {"no", "root"}
     /\ Len(mk.limits) = 1 /\ InRange(mk.limits, Len(mk.leaves)))
    => LET a   == mk.limits[1].Left
           b   == mk.limits[1].Right
           got == GetLimitStorageProof(a, b, mk.leaves)
           v   == CheckLimitStorageProof(mk.claimed, a, b, got.proof, mk.root)
       IN  /\ got.err = "nil" /\ got.proof = mk.proof
           /\ v = mk.verdict /\ v.err = "nil"
           /\ v.ok <=> mk.root = CachedTreeRoot(mk.leaves)

\* a proof for an inner limit of four leaves was checked against the root
\* of another sequence
C21_Witness ==
    /\ mk.pc = "checked" /\ mk.tampered = "root"
    /\ Len(mk.leaves) = 4 /\ mk.limits = <<Limit(1, 3)>>
    /\ mk.root \in {CachedTreeRoot(l) : l \in LeafSeqs \ {<<>>}}
    /\ ~mk.verdict.ok


IsPowerOfTwo(n) == \E k \in 0..UintBits : n = Pow2(k)

(***************************************************************************)
(* C22: for all left < right, adjacentSubtreeSize(left, right) is a power  *)
(* of two, is at most right - left and divides left; adding the result to  *)
(* left again and again reaches right exactly and never passes it.         *)
(***************************************************************************)
C22_AdjacentSubtreeSizeCovers ==
    /\ mk.left <= mk.leafIndex /\ mk.leafIndex <= mk.end
    /\ (mk.pc = "walk" /\ mk.leafIndex # mk.end)
         => LET size == adjacentSubtreeSize(mk.leafIndex, mk.end)
            IN  /\ IsPowerOfTwo(size)
                /\ size <= mk.end - mk.leafIndex
                /\ mk.leafIndex % size = 0

\* the same for spans below half the range of uint64
C22_HoldsBelowSignBit ==
    (mk.end - mk.left < Pow2(UintBits - 1)) => C22_AdjacentSubtreeSizeCovers


(***************************************************************************)
(* C23: GetSubtreeRoot(n) with n >= 1 on a source that holds k leaves:     *)
(* with k = 0 it fails with the end-of-leaves error and leaves the source  *)
(* as it was; otherwise it takes exactly min(n, k) leaves from the front   *)
(* and returns the root of the tree they form.                              *)
(***************************************************************************)
C23_GetSubtreeRootTakesMin ==
    (mk.last.op = "GetSubtreeRoot" /\ mk.last.n >= 1)
    => LET had  == LeavesOf(mk.last.before)
           k    == Len(had)
           take == Min(mk.last.n, k)
       IN  IF k = 0
           THEN mk.last.err = "EOF" /\ mk.src = mk.last.before
           ELSE /\ mk.last.err = "nil"
                /\ LeavesOf(mk.src) = SubSeq(had, take + 1, k)
                /\ mk.last.root = CachedTreeRoot(SubSeq(had, 1, take))

\* a reader whose last leaf is short was asked for more leaves than it held
C23_Witness ==
    /\ mk.last.op = "GetSubtreeRoot" /\ mk.last.before.kind = "reader"
    /\ mk.last.before.leafSize = 2 /\ Len(mk.last.before.r) = 5
    /\ mk.last.n = 4 /\ mk.last.err = "nil" /\ Len(mk.src.r) = 0


(***************************************************************************)
(* C24: Skip(n) on a source with at least n leaves left advances it by     *)
(* exactly n leaves and succeeds; with fewer than n leaves left it fails,  *)
(* and a cached source is then as it was before the call.                   *)
(***************************************************************************)
C24_SkipAdvancesOrFails ==
    (mk.last.op = "Skip" /\ mk.last.n >= 0)
    => LET had == LeavesOf(mk.last.before)
           k   == Len(had)
       IN  IF k >= mk.last.n
           THEN /\ mk.last.err = "nil"
                /\ LeavesOf(mk.src) = SubSeq(had, mk.last.n + 1, k)
           ELSE /\ mk.last.err # "nil"
                /\ mk.last.before.kind = "cached" => mk.src = mk.last.before

\* the same for the sources whose leaves all have the full size
C24_HoldsForFullLeaves ==
    (mk.last.before.kind = "reader"
       => Len(mk.last.before.r) % mk.last.before.leafSize = 0)
    => C24_SkipAdvancesOrFails


\* a limit list with an empty or inverted limit, or with limits that are
\* out of order or overlap
BadLimitList(limits) ==
    \/ \E i \in 1..Len(limits) : limits[i].Left >= limits[i].Right
    \/ \E i, j \in 1..Len(limits) : i < j /\ limits[j].Left < limits[i].Right

(***************************************************************************)
(* C25: getLimitStorageProof takes leaves from the source only for a       *)
(* limit list that is non-empty and valid.  For an empty list it returns   *)
(* an empty proof and no error; for a list with an empty or inverted       *)
(* limit, or with limits out of order or overlapping, it returns an error; *)
(* in both cases the source still holds every leaf.                         *)
(***************************************************************************)
C25_RejectedListsLeaveSource ==
    mk.pc # "input"
    => /\ Len(mk.limits) = 0
            => (mk.proof = <<>> /\ mk.getErr = "nil" /\ mk.leafRoots = mk.leaves)
       /\ BadLimitList(mk.limits)
            => (mk.getErr # "nil" /\ mk.leafRoots = mk.leaves)

\* a list of two overlapping limits was given over a source of three leaves
C25_Witness ==
    /\ mk.pc = "built" /\ Len(mk.leaves) = 3
    /\ mk.limits = <<Limit(0, 2), Limit(1, 3)>>
    /\ mk.getErr = "invalid" /\ mk.leafRoots = mk.leaves


(***************************************************************************)
(* C26: while a handler serves an upload of k append actions on a          *)
(* responsibility of n sector roots, its tentative roots are the n old     *)
(* roots followed by the roots of the k new sectors in the order of the    *)
(* actions, the file size of the new revision is the old one plus k times  *)
(* SectorSize, and its file Merkle root is the root of the tentative       *)
(* roots.                                                                    *)
(***************************************************************************)
C26_AppendsExtendRoots ==
    \A h \in Handlers :
      hs[h].pc \in {"waitClientRevSign", "waitClientCommit", "sendAck"}
      => LET old == hs[h].nd.srSnapshot
             k   == Len(hs[h].actions)
         IN  /\ \A i \in 1..k : hs[h].actions[i].Type = "Append"
             /\ hs[h].nd.newRoots =
                  old.SectorRoots
                  \o [i \in 1..k |-> Sha256MerkleTreeRoot(hs[h].actions[i].Data)]
             /\ hs[h].newRev.NewFileSize
                  = LatestRevision(old).NewFileSize + k * SectorSize
             /\ hs[h].newRev.NewFileMerkleRoot
                  = Sha256CachedTreeRoot2(hs[h].nd.newRoots)

\* two different sectors are being appended to a file that has one
C26_Witness ==
    \E h \in Handlers :
      /\ hs[h].pc = "waitClientCommit"
      /\ Len(hs[h].nd.srSnapshot.SectorRoots) = 1
      /\ Len(hs[h].actions) = 2
      /\ hs[h].actions[1].Data # hs[h].actions[2].Data


\* how many messages with the given code are in a handler's record of sends
TimesSent(sent, code) == Cardinality({i \in 1..Len(sent) : sent[i].code = code})

(***************************************************************************)
(* C27: in every run of ContractUploadHandler the Merkle proof is sent     *)
(* before the client's revision signature is read, the host's revision     *)
(* signature is sent only after the client's was received, and the         *)
(* acknowledgement is sent only after the responsibility was modified with *)
(* success; each of the three messages is sent at most once.               *)
(***************************************************************************)
C27_SendsInOrderAtMostOnce ==
    /\ [](\A h \in Handlers :
            /\ TimesSent(hs[h].sent, "UploadMerkleProofMsg") <= 1
            /\ TimesSent(hs[h].sent, "UploadHostRevisionSignMsg") <= 1
            /\ TimesSent(hs[h].sent, "HostAckMsg") <= 1)
    /\ [][\A h \in Handlers :
            \* the step that reads the client's signature finds the proof sent
            /\ (hs[h].pc = "waitClientRevSign" /\ hs'[h] # hs[h])
                 => hs[h].sent = <<hs[h].sent[1]>>
                    /\ hs[h].sent[1].code = "UploadMerkleProofMsg"
            \* the host's signature goes out in a step that read the client's
            /\ TimesSent(hs'[h].sent, "UploadHostRevisionSignMsg")
                 > TimesSent(hs[h].sent, "UploadHostRevisionSignMsg")
                 => /\ hs[h].pc = "waitClientRevSign"
                    /\ hs'[h].newRev.Signatures[1] = ClientSignature(hs[h].newRev)
                    /\ hs'[h].sent[Len(hs'[h].sent)].code = "UploadHostRevisionSignMsg"
            \* the acknowledgement goes out after the modification succeeded
            /\ (hs'[h].pc = "sendAck" /\ hs[h].pc # "sendAck")
                 => (hs'[h].lastRecv = "ClientCommitSuccessMsg" /\ db' = hs'[h].sr)
            /\ TimesSent(hs'[h].sent, "HostAckMsg") > TimesSent(hs[h].sent, "HostAckMsg")
                 => hs[h].pc = "sendAck"]_vars

\* a handler has sent the proof, its signature and the acknowledgement
C27_Witness ==
    \E h \in Handlers :
        /\ hs[h].pc = "done" /\ hs[h].negotiateErr = "nil"
        /\ [i \in 1..Len(hs[h].sent) |-> hs[h].sent[i].code]
             = <<"UploadMerkleProofMsg", "UploadHostRevisionSignMsg", "HostAckMsg">>


(***************************************************************************)
(* C28: FinalizeStorageResponsibility and                                   *)
(* RollBackCreateStorageResponsibility never return with the contract's    *)
(* lock held by the caller.  When the lock could not be taken they return  *)
(* the lock error and have inserted and deleted nothing; on every other    *)
(* path the lock was released or its entry was taken out of the registry.  *)
(***************************************************************************)
C28_NoLockLeftHeld ==
    /\ [](\A p \in FinalizeProcs :
            lk.procs[p].pc = "returned"
            => LET me == lk.procs[p]
               IN  /\ ~(lk.registry[me.soid] = "held" /\ lk.owner[me.soid] = p)
                   /\ me.result = "errObligationLocked" => me.did = {})
    /\ [][\A p \in FinalizeProcs :
            (lk.procs[p].pc # "returned" /\ lk'.procs[p].pc = "returned")
            => LET me == lk'.procs[p]
               IN  IF me.result = "errObligationLocked"
                   THEN lk'.stored = lk.stored /\ lk'.registry = lk.registry
                   ELSE lk'.registry[me.soid] \in {"absent", "free"}]_vars

\* one call returned the lock error while another call, which held the lock,
\* has since returned after a failed insert
C28_Witness ==
    \E p, q \in FinalizeProcs :
        /\ lk.procs[p].pc = "returned"
        /\ lk.procs[p].result = "errObligationLocked"
        /\ lk.procs[q].pc = "returned"
        /\ lk.procs[q].result = "insert error"
        /\ lk.procs[q].soid = lk.procs[p].soid


\* a number that every turn of a loop and every step between loops makes
\* smaller: the limits still to walk, then the place in the code, then what
\* is left of the source, of the proof and of the claimed leaves; a source
\* asked for a negative number of leaves gives none, which happens only at
\* leaf index 0
WalkRank(w) ==
    Len(w.limits) * 128
    + (CASE w.pc = "start" -> 3 [] w.pc = "consume" -> 2 [] w.pc = "skip" -> 1
         [] OTHER -> 0) * 32
    + 2 * (Len(w.leafRoots) + Len(w.proof)
             + (IF w.pc = "skip" /\ w.fn = "check"
                THEN Min(Len(w.leaves), w.limits[1].Right - w.i)
                ELSE 0))
    + (IF w.leafIndex = 0 THEN 1 ELSE 0)

C30_ErrorLeavesStateAndContext ==
    /\ [][(db'.calls # db.calls /\ db'.last.err # "nil")
            => (/\ Content(db'.state) = Content(db.state)
                /\ db'.dpos = db.dpos)]_vars
    /\ [](~db.state.panicked)

\* a contract creation that had created the status account before it found
\* the contract to exist has returned its error
C30_Witness ==
    /\ db.last.fn = "storage"
    /\ db.last.txType = ContractCreateTransaction
    /\ db.last.err = "this storage contract already exist"
    /\ db.last.dirty

RECURSIVE SumBalancesOver(_, _)
SumBalancesOver(s, addrs) ==
    IF addrs = {} THEN 0
    ELSE LET a == CHOOSE x \in addrs : TRUE
         IN  s.balance[a] + SumBalancesOver(s, addrs \ {a})

\* the sum of the balances of all accounts
SumBalances(s) == SumBalancesOver(s, StateAddrs)

\* a step in which the storage transaction txType has succeeded
StorageTxSucceeds(txType) ==
    /\ db'.calls # db.calls
    /\ db'.last.fn = "storage"
    /\ db'.last.txType = txType
    /\ db'.last.err = "nil"

\* balances changes from s to t by the amounts of moved alone
BalancesMovedBy(s, t, moved) ==
    \A a \in StateAddrs :
        t.balance[a] = s.balance[a] + (IF a \in DOMAIN moved THEN moved[a] ELSE 0)

(***************************************************************************)
(* C31: a successful CreateContractTx or StorageProofTx leaves the sum of  *)
(* all balances as it was.  The creation takes the client's collateral     *)
(* from the client and the host's from the host and gives their sum to the *)
(* new contract account; the storage proof gives the stored valid-proof    *)
(* outputs to the client and the host and takes their sum from the         *)
(* contract account.  No other balance changes.                            *)
(***************************************************************************)
C31_BalancesConserved ==
    /\ [][StorageTxSucceeds(ContractCreateTransaction) =>
            /\ SumBalances(db'.state) = SumBalances(db.state)
            /\ \E id \in ContractIds :
                 LET c == ContractAddr(id)
                     clientCollateral == GetState(db'.state, c, KeyClientCollateral)
                     hostCollateral == GetState(db'.state, c, KeyHostCollateral)
                 IN  /\ ~Exist(db.state, c) /\ Exist(db'.state, c)
                     /\ BalancesMovedBy(db.state, db'.state,
                                        (c :> (clientCollateral + hostCollateral)) @@ (ClientAddr :> (0 - clientCollateral))
                                        @@ (HostAddr :> (0 - hostCollateral)))]_vars
    /\ [][StorageTxSucceeds(StorageProofTransaction) =>
            /\ SumBalances(db'.state) = SumBalances(db.state)
            /\ \E id \in ContractIds :
                 LET c == ContractAddr(id)
                     clientValidOutput == GetState(db.state, c, KeyClientValidProofOutput)
                     hostValidOutput == GetState(db.state, c, KeyHostValidProofOutput)
                 IN  /\ db.state.nonce[c] = 1 /\ db'.state.nonce[c] = 0
                     /\ BalancesMovedBy(db.state, db'.state,
                                        (c :> (0 - (clientValidOutput + hostValidOutput))) @@ (ClientAddr :> clientValidOutput)
                                        @@ (HostAddr :> hostValidOutput))]_vars

\* a storage proof has paid out the outputs of a revision, which differ from
\* the collaterals the contract was created with
C31_Witness ==
    /\ db.last.fn = "storage" /\ db.last.txType = StorageProofTransaction
    /\ db.last.err = "nil"
    /\ \E id \in ContractIds :
         LET c == ContractAddr(id)
         IN  /\ db.state.nonce[c] = 0 /\ Exist(db.state, c)
             /\ GetState(db.state, c, KeyRevisionNumber) = 2
             /\ GetState(db.state, c, KeyClientValidProofOutput)
                  # GetState(db.state, c, KeyClientCollateral)

\* the keys of a contract account that CommitRevisionTx writes
RevisionKeys ==
    {KeyFileSize, KeyFileMerkleRoot, KeyRevisionNumber,
     KeyClientValidProofOutput, KeyHostValidProofOutput,
     KeyClientMissedProofOutput, KeyHostMissedProofOutput}

(***************************************************************************)
(* C32: a successful CommitRevisionTx changes nothing but the file size,   *)
(* the file Merkle root, the revision number and the four valid and missed *)
(* proof outputs of one contract account: the window, the addresses, the   *)
(* collaterals and the unlock hash of that account, every other account's  *)
(* storage, and all balances, nonces and accounts stay as they were.       *)
(***************************************************************************)
C32_RevisionFrame ==
    [][StorageTxSucceeds(CommitRevisionTransaction) =>
         /\ db'.state.balance = db.state.balance
         /\ db'.state.nonce = db.state.nonce
         /\ db'.state.exist = db.state.exist
         /\ \E id \in ContractIds :
              \A a \in StateAddrs : \A k \in StateKeys :
                  (a # ContractAddr(id) \/ k \notin RevisionKeys)
                      => GetState(db'.state, a, k) = GetState(db.state, a, k)]_vars

\* a revision has been committed that changed the contract's outputs, file
\* size and revision number
C32_Witness ==
    /\ db.last.fn = "storage" /\ db.last.txType = CommitRevisionTransaction
    /\ db.last.err = "nil"
    /\ \E id \in ContractIds :
         LET c == ContractAddr(id)
         IN  /\ GetState(db.state, c, KeyRevisionNumber) = 2
             /\ GetState(db.state, c, KeyFileSize) = 1
             /\ GetState(db.state, c, KeyHostValidProofOutput)
                  # GetState(db.state, c, KeyHostCollateral)
             /\ GetState(db.state, c, KeyWindowEnd) = 2

\* the addresses of a list of entries
Addresses(entries) == {entries[i].addr : i \in 1..Len(entries)}

(***************************************************************************)
(* C33: RandomSelect on a wheel built with a target not above the number   *)
(* of entries returns exactly target addresses, no two of them the same,   *)
(* each the address of a given entry; a second call returns the same list. *)
(***************************************************************************)
C33_RandomSelectReturnsTarget ==
    mk.pc = "returned" =>
        /\ Len(mk.out) = mk.target
        /\ \A i, j \in 1..Len(mk.out) : i # j => mk.out[i] # mk.out[j]
        /\ \A i \in 1..Len(mk.out) : mk.out[i] \in Addresses(mk.given)
        /\ mk.calls >= 2 => mk.out = mk.first

\* what does hold of the list returned: target zero addresses come first,
\* then target different addresses of given entries, and a second call
\* returns the same list
C33_HoldsAfterZeroAddresses ==
    mk.pc = "returned" =>
        /\ Len(mk.out) = 2 * mk.target
        /\ \A i \in 1..mk.target : mk.out[i] = 0
        /\ \A i, j \in (mk.target + 1)..Len(mk.out) :
               i # j => mk.out[i] # mk.out[j]
        /\ \A i \in (mk.target + 1)..Len(mk.out) :
               mk.out[i] \in Addresses(mk.given)
        /\ mk.calls >= 2 => mk.out = mk.first

(***************************************************************************)
(* C34: during the selection, after each pick sumVotes is the sum of the   *)
(* votes of the entries that are still in the wheel.                       *)
(***************************************************************************)
C34_SumVotesTracksWheel ==
    mk.pc \in {"ready", "selecting", "returned"}
        => mk.sumVotes = SumVotes(mk.entries)

\* what does hold: sumVotes stays the sum of the votes of the given entries
C34_SumVotesStaysInitial ==
    mk.pc \in {"ready", "selecting", "returned"}
        => mk.sumVotes = SumVotes(mk.given)

(***************************************************************************)
(* C35: on a wheel whose entries all have positive votes, with a value     *)
(* drawn in [0, sumVotes), selectSingleEntry returns from inside its loop: *)
(* no pick is made by the fallback after the loop.                         *)
(***************************************************************************)
C35_FallbackNeverReached ==
    (\A i \in 1..Len(mk.given) : mk.given[i].vote > 0) => ~mk.fallback

RECURSIVE SumEntryEvals(_, _)
SumEntryEvals(nodes, set) ==
    IF set = {} THEN 0
    ELSE LET p == CHOOSE x \in set : TRUE
         IN  nodes[p].entry + SumEntryEvals(nodes, set \ {p})

\* the sum of the entry evals of the occupied nodes at and below n
SubtreeEval(nodes, n) ==
    SumEntryEvals(nodes, {p \in DOMAIN nodes : IsAbove(n, p) /\ nodes[p].occupied})

(***************************************************************************)
(* C37: after any sequence of nodeInsert and nodeRemove calls, the eval of *)
(* every node is the sum of the entry evals of the occupied nodes in its   *)
(* subtree, the node itself included.                                      *)
(***************************************************************************)
C37_EvalIsSubtreeSum ==
    \A n \in DOMAIN mk.nodes : mk.nodes[n].eval = SubtreeEval(mk.nodes, n)

\* what does hold: the same as long as nodeRemove has not been called
C37_HoldsBeforeRemove ==
    ~mk.removed => C37_EvalIsSubtreeSum

(***************************************************************************)
(* C36: a call of StorageHost.ReadSector(root) comes to an end and returns *)
(* the stored sector's data or an error.                                   *)
(***************************************************************************)
C36_ReadSectorReturns ==
    (mk.pc = "running") ~> (mk.pc = "returned")

\* what does hold: a call never returns, and it ends in the fatal error
C36_CallEndsFatal ==
    /\ [](mk.pc # "returned")
    /\ (mk.pc = "running") ~> (mk.pc = "fatal")

\* what the download revision of the running Read moves from the client's
\* valid-proof output to the host's
ReadAmountMoved ==
    rd.newRevision.NewValidProofOutputs[2].Value
        - ReadLastRevision(0).NewValidProofOutputs[2].Value

\* the client's valid-proof output in the last revision of the running Read
ReadLastClientOutput ==
    rd.newRevision.NewValidProofOutputs[1].Value + ReadAmountMoved

C38_PriceBeforeMarginWithinFunds ==
    /\ rd.newRevision # NoRev =>
         /\ ReadAmountMoved = MultExtraRatio(DownloadPrice(ReadHostInfo, rd.req))
         /\ DownloadPrice(ReadHostInfo, rd.req) <= ReadLastClientOutput
    /\ rd.err = "contract has insufficient funds to support download"
         => rd.sent = <<>>

\* the goroutine q waits for the lock of the contract soid inside
\* checkAndTryLockStorageObligation or checkAndLockStorageObligation
WaitsForObligation(l, q, soid) ==
    l.procs[q].pc \in {"waiting", "blocked"} /\ l.procs[q].soid = soid

(***************************************************************************)
(* C39: while the holder of a contract's lock is calling                   *)
(* checkAndUnlockStorageObligation, a goroutine that waits for the same    *)
(* contract in checkAndLockStorageObligation or                            *)
(* checkAndTryLockStorageObligation does not keep the unlock from going    *)
(* on, and the call of a goroutine that waited ends with the lock taken.   *)
(***************************************************************************)
C39_UnlockPassesWaiter ==
    /\ [](\A p, q \in LockProcs :
            (/\ lk.procs[p].pc = "calling" /\ lk.procs[p].op = "unlock"
             /\ WaitsForObligation(lk, q, lk.procs[p].soid))
                => CanLock(lk))
    /\ [][\A q \in LockProcs :
            (lk.procs[q].pc \in {"waiting", "blocked"} /\ lk'.procs[q].pc = "idle")
                => lk.procs[q].soid \in lk'.procs[q].holds]_vars

\* what does hold: a goroutine that waits for a contract holds the
\* host-wide lock; one that waits in checkAndLockStorageObligation never
\* leaves, and one that waits in checkAndTryLockStorageObligation leaves
\* with errObligationLocked and without the lock
C39_WaiterKeepsHostLock ==
    /\ [](\A q \in LockProcs :
            lk.procs[q].pc \in {"waiting", "blocked"} => lk.writer = q)
    /\ [][\A q \in LockProcs :
            /\ lk.procs[q].pc = "blocked" => lk'.procs[q].pc = "blocked"
            /\ (lk.procs[q].pc = "waiting" /\ lk'.procs[q].pc = "idle")
                 => /\ lk'.procs[q].result = "errObligationLocked"
                    /\ lk.procs[q].soid \notin lk'.procs[q].holds]_vars

\* the two sources hold the same leaves: the reader's bytes cut into leaves
\* hash to the cached source's leaf roots
PairInStep == LeavesOfBytes(mk.r, mk.leafSize) = mk.leafRoots

\* the bytes of the reader are whole leaves
PairWholeLeaves == Len(mk.r) % mk.leafSize = 0

(***************************************************************************)
(* C40: for the same leaf sequence, after every GetSubtreeRoot(n) or       *)
(* Skip(n) call with n >= 0 the streaming source and the cached source     *)
(* have returned the same root and the same error, and hold the same       *)
(* number of leaves.                                                        *)
(***************************************************************************)
C40_SourcesAgree ==
    mk.last.op # "none" =>
        /\ mk.last.readerRoot = mk.last.cachedRoot
        /\ mk.last.readerErr = mk.last.cachedErr
        /\ Len(LeavesOfBytes(mk.r, mk.leafSize)) = Len(mk.leafRoots)

\* what holds: a call on whole leaves that asks for at least one leaf and
\* for no more than the sources hold leaves both sources answer alike, and
\* they hold the same leaves after it
C40_AgreeWithinWholeLeaves ==
    [][(/\ PairInStep /\ PairWholeLeaves
        /\ mk'.last.n >= 1 /\ mk'.last.n <= Len(mk.leafRoots))
       => (/\ mk'.last.readerRoot = mk'.last.cachedRoot
           /\ mk'.last.readerErr = mk'.last.cachedErr
           /\ LeavesOfBytes(mk'.r, mk'.leafSize) = mk'.leafRoots)]_vars

====
